---- MODULE Spec2Model ----
(***************************************************************************)
(* AWS Log Management Review: the analysis run (aws_log_review.py), the    *)
(* recommendation deriver, the compliance scorer and the compliance table  *)
(* (report_generator.py), modelled as state machines.                      *)
(*                                                                         *)
(*  Spec        one run of AWSLogReviewer.run_analysis against an AWS      *)
(*              account, followed by the report of the CLI.                *)
(*  SpecReport  the pure functions applied to arbitrary FindingsReports.   *)
(*  SpecFlow    the consumers of a FindingsReport applied one after the    *)
(*              other, and reorderings of the report.                      *)
(*  SpecOrchestrator  main of run_complete_analysis.py.                    *)
(*  SpecReportCLI     main of report_generator.py.                         *)
(*  SpecScriptsCLI    main of scripts/generate_remediation_scripts.py.     *)
(***************************************************************************)
EXTENDS Integers, Sequences, FiniteSets, TLC

VARIABLES
    \* ---- Spec: one run of run_analysis ----
    account,              \* what the AWS APIs answer during this run
    pc,                   \* position inside run_analysis / main
    calls,                \* the analysis functions invoked so far, in order
    cloudtrail_findings,  \* locals of run_analysis (NoValue until assigned)
    s3_findings,
    cloudwatch_findings,
    rds_findings,
    iam_findings,
    results,              \* the value returned by run_analysis
    compliance_table,     \* the rows generate_report adds to the PCI table
    \* ---- SpecReport: the pure functions on a FindingsReport ----
    report,               \* the FindingsReport at hand
    added,                \* issues added to the report so far
    phase,                \* which derivations have been applied
    recs,                 \* generate_recommendations(report)
    score,                \* calculate_compliance_score(report)
    non_compliant,        \* get_non_compliant_requirements(report)
    table,                \* the compliance table of generate_report
    \* ---- Spec: the findings written as JSON and read back ----
    findings_file,        \* the tokens of findings.json
    reloaded,             \* the findings json.load returns
    \* ---- SpecFlow ----
    swapped,              \* reorderings applied to the report so far
    cost,                 \* estimate_monthly_cost(report)
    written,              \* the report formats generated so far, in order
    scripts,              \* what generate_all_scripts did
    \* ---- the three command lines ----
    cli,                  \* options given and what the environment holds
    cli_pc,               \* position inside main
    cli_log,              \* steps performed and messages printed, in order
    cli_files,            \* names of the files written so far
    exit_code             \* exit status of the process (-1 while it runs)

runVars == <<account, pc, calls, cloudtrail_findings, s3_findings,
             cloudwatch_findings, rds_findings, iam_findings, results,
             compliance_table>>
reportVars == <<report, added, phase, recs, score, non_compliant, table>>
reportVars_but_phase == <<report, added, recs, score, non_compliant, table>>
jsonVars == <<findings_file, reloaded>>
flowVars == <<swapped, cost, written, scripts>>
cliVars == <<cli, cli_pc, cli_log, cli_files, exit_code>>
vars == <<account, pc, calls, cloudtrail_findings, s3_findings,
          cloudwatch_findings, rds_findings, iam_findings, results,
          compliance_table, report, added, phase, recs, score,
          non_compliant, table, findings_file, reloaded, swapped, cost,
          written, scripts, cli, cli_pc, cli_log, cli_files, exit_code>>

\* Python's None / a local that is not assigned yet.
NoValue == [none |-> TRUE]

(***************************************************************************)
(* Bounds of the model.                                                    *)
(***************************************************************************)
\* resources (trails, buckets, log groups, instances) a varied service holds
MaxRes == 2
\* issues added to a FindingsReport by AddIssue
MaxAdd == 1
\* HIGH issues of the cloudtrail entry of a bulk report
MaxHigh == 12
\* MEDIUM issues of the s3_logging entry of a bulk report
MaxMedium == 7
\* names listed under a "..._without_..." key of an arbitrary report
MaxNames == 1
\* issues under s3_logging of a report with mixed severities
MaxMixed == 2
\* reorderings applied to a report
MaxSwap == 1

(***************************************************************************)
(* Resource names.  A resource's name is taken from one of two pools by    *)
(* its position in the listing.                                            *)
(***************************************************************************)
NamePools ==
    << <<"alpha-1", "alpha-2", "alpha-3", "alpha-4">>,
       <<"beta-1", "beta-2", "beta-3", "beta-4">> >>

PoolIds == 1..Len(NamePools)

ResName(pool, i) == NamePools[pool][i]

\* Text of the exception an AWS client raises.
ErrorText == "AccessDenied"

(***************************************************************************)
(* Issues.  A description or recommendation f-string is kept as its        *)
(* template and the value substituted into it.                             *)
(***************************************************************************)
Text(template, arg) == [template |-> template, arg |-> arg]

Issue(severity, description, pci_reference, recommendation) ==
    [severity |-> severity, description |-> description,
     pci_reference |-> pci_reference, recommendation |-> recommendation]

\* Result of the body of a try block: the findings built so far and whether
\* an exception left the block.
Completed(f) == [findings |-> f, raised |-> FALSE]
Raising(f) == [findings |-> f, raised |-> TRUE]

(***************************************************************************)
(* analyze_cloudtrail                                                      *)
(***************************************************************************)
RECURSIVE cloudtrail_loop(_, _, _)
cloudtrail_loop(trails, i, f) ==
    IF i > Len(trails) THEN Completed(f)
    ELSE LET trail == trails[i] IN
         IF trail.get_trail = "error" \/ trail.get_trail_status = "error"
         THEN Raising(f)
         ELSE IF trail.IsLogging
         THEN LET f1 == [f EXCEPT !.enabled = TRUE,
                                  !.s3_bucket = trail.S3BucketName]
                  f2 == IF trail.IsMultiRegionTrail
                        THEN [f1 EXCEPT !.multi_region = TRUE] ELSE f1
                  f3 == IF trail.LogFileValidationEnabled
                        THEN [f2 EXCEPT !.log_file_validation = TRUE]
                        ELSE [f2 EXCEPT !.issues = Append(@,
                               Issue("MEDIUM",
                                     Text("Log file validation not enabled for trail {}", trail.Name),
                                     "10.5.2",
                                     Text("Enable log file validation for integrity checking", "")))]
              IN cloudtrail_loop(trails, i + 1, f3)
         ELSE cloudtrail_loop(trails, i + 1,
                [f EXCEPT !.issues = Append(@,
                   Issue("HIGH",
                         Text("CloudTrail {} is not logging", trail.Name),
                         "10.2.1-10.2.7",
                         Text("Enable logging for CloudTrail", "")))])

\* variant: a listed trail counts as an enabled CloudTrail
cloudtrail_try_enabled_when_listed(p, f) ==
    IF p.list_trails = "error" THEN Raising(f)
    ELSE IF p.Trails = <<>>
    THEN Completed([f EXCEPT !.issues = Append(@,
             Issue("HIGH", Text("No CloudTrail trails found", ""),
                   "10.2.1-10.2.7",
                   Text("Enable CloudTrail for API activity logging", "")))])
    ELSE cloudtrail_loop(p.Trails, 1, [f EXCEPT !.enabled = TRUE])

cloudtrail_try(p, f) ==
    IF p.list_trails = "error" THEN Raising(f)
    ELSE IF p.Trails = <<>>
    THEN Completed([f EXCEPT !.issues = Append(@,
             Issue("HIGH", Text("No CloudTrail trails found", ""),
                   "10.2.1-10.2.7",
                   Text("Enable CloudTrail for API activity logging", "")))])
    ELSE cloudtrail_loop(p.Trails, 1, f)

analyze_cloudtrail(p) ==
    LET findings == [enabled |-> FALSE, multi_region |-> FALSE,
                     log_file_validation |-> FALSE, s3_bucket |-> "None",
                     issues |-> <<>>]
        r == cloudtrail_try(p, findings)
    IN IF r.raised
       THEN [r.findings EXCEPT !.issues = Append(@,
               Issue("HIGH", Text("Error analyzing CloudTrail: {}", ErrorText),
                     "10.2.1-10.2.7",
                     Text("Check CloudTrail permissions and configuration", "")))]
       ELSE r.findings

(***************************************************************************)
(* analyze_s3_logging                                                      *)
(***************************************************************************)
\* variant: the unlogged bucket reported as HIGH
S3Unlogged_high(name) ==
    Issue("HIGH",
          Text("S3 bucket {} does not have access logging enabled", name),
          "10.2.1",
          Text("Enable access logging for bucket {}", name))

S3Unlogged(name) ==
    Issue("MEDIUM",
          Text("S3 bucket {} does not have access logging enabled", name),
          "10.2.1",
          Text("Enable access logging for bucket {}", name))

RECURSIVE s3_loop(_, _, _)
s3_loop(buckets, i, f) ==
    IF i > Len(buckets) THEN Completed(f)
    ELSE LET bucket == buckets[i]
             f1 == [f EXCEPT !.buckets_analyzed = @ + 1]
         IN CASE bucket.get_bucket_logging = "error" -> Raising(f1)
              [] bucket.get_bucket_logging = "LoggingEnabled" ->
                   s3_loop(buckets, i + 1,
                           [f1 EXCEPT !.buckets_with_logging = @ + 1])
              [] bucket.get_bucket_logging = "NotConfigured" ->
                   s3_loop(buckets, i + 1,
                           [f1 EXCEPT !.buckets_without_logging = Append(@, bucket.Name),
                                      !.issues = Append(@, S3Unlogged(bucket.Name))])
              [] bucket.get_bucket_logging = "NoSuchBucketLoggingConfiguration" ->
                   s3_loop(buckets, i + 1,
                           [f1 EXCEPT !.buckets_without_logging = Append(@, bucket.Name),
                                      !.issues = Append(@, S3Unlogged(bucket.Name))])

s3_try(p, f) ==
    IF p.list_buckets = "error" THEN Raising(f)
    ELSE s3_loop(p.Buckets, 1, f)
\* variant: no outer try/except, the exception leaves the function
analyze_s3_logging_unguarded(p) ==
    LET findings == [buckets_analyzed |-> 0, buckets_with_logging |-> 0,
                     buckets_without_logging |-> <<>>, issues |-> <<>>]
        r == s3_try(p, findings)
    IN IF r.raised THEN [exception |-> TRUE] ELSE r.findings

analyze_s3_logging(p) ==
    LET findings == [buckets_analyzed |-> 0, buckets_with_logging |-> 0,
                     buckets_without_logging |-> <<>>, issues |-> <<>>]
        r == s3_try(p, findings)
    IN IF r.raised
       THEN [r.findings EXCEPT !.issues = Append(@,
               Issue("HIGH", Text("Error analyzing S3 logging: {}", ErrorText),
                     "10.2.1",
                     Text("Check S3 permissions and configuration", "")))]
       ELSE r.findings

(***************************************************************************)
(* analyze_cloudwatch_logs                                                 *)
(***************************************************************************)
RECURSIVE cloudwatch_loop(_, _, _)
cloudwatch_loop(groups, i, f) ==
    IF i > Len(groups) THEN Completed(f)
    ELSE LET log_group == groups[i]
             f1 == [f EXCEPT !.log_groups = @ + 1]
         IN IF log_group.retentionInDays
            THEN cloudwatch_loop(groups, i + 1,
                    [f1 EXCEPT !.log_groups_with_retention = @ + 1])
            ELSE cloudwatch_loop(groups, i + 1,
                    [f1 EXCEPT !.log_groups_without_retention = Append(@, log_group.logGroupName),
                               !.issues = Append(@,
                                  Issue("MEDIUM",
                                        Text("CloudWatch Log Group {} has no retention policy", log_group.logGroupName),
                                        "10.5.1.2",
                                        Text("Set retention policy for log group {}", log_group.logGroupName)))])

cloudwatch_try(p, f) ==
    IF p.describe_log_groups = "error" THEN Raising(f)
    ELSE cloudwatch_loop(p.logGroups, 1, f)

analyze_cloudwatch_logs(p) ==
    LET findings == [log_groups |-> 0, log_groups_with_retention |-> 0,
                     log_groups_without_retention |-> <<>>, issues |-> <<>>]
        r == cloudwatch_try(p, findings)
    IN IF r.raised
       THEN [r.findings EXCEPT !.issues = Append(@,
               Issue("HIGH", Text("Error analyzing CloudWatch Logs: {}", ErrorText),
                     "10.2.1",
                     Text("Check CloudWatch Logs permissions and configuration", "")))]
       ELSE r.findings

(***************************************************************************)
(* analyze_rds_logging                                                     *)
(***************************************************************************)
RECURSIVE rds_loop(_, _, _)
rds_loop(instances, i, f) ==
    IF i > Len(instances) THEN Completed(f)
    ELSE LET instance == instances[i]
             f1 == [f EXCEPT !.instances = @ + 1]
         IN IF instance.EnableCloudwatchLogsExports
            THEN rds_loop(instances, i + 1,
                    [f1 EXCEPT !.instances_with_logging = @ + 1])
            ELSE rds_loop(instances, i + 1,
                    [f1 EXCEPT !.instances_without_logging = Append(@, instance.DBInstanceIdentifier),
                               !.issues = Append(@,
                                  Issue("MEDIUM",
                                        Text("RDS instance {} does not have CloudWatch logging enabled", instance.DBInstanceIdentifier),
                                        "10.2.1",
                                        Text("Enable CloudWatch logging for RDS instance {}", instance.DBInstanceIdentifier)))])

rds_try(p, f) ==
    IF p.describe_db_instances = "error" THEN Raising(f)
    ELSE rds_loop(p.DBInstances, 1, f)

analyze_rds_logging(p) ==
    LET findings == [instances |-> 0, instances_with_logging |-> 0,
                     instances_without_logging |-> <<>>, issues |-> <<>>]
        r == rds_try(p, findings)
    IN IF r.raised
       THEN [r.findings EXCEPT !.issues = Append(@,
               Issue("HIGH", Text("Error analyzing RDS logging: {}", ErrorText),
                     "10.2.1",
                     Text("Check RDS permissions and configuration", "")))]
       ELSE r.findings

(***************************************************************************)
(* analyze_iam_logging.  Both inner try blocks end in a bare except, so no *)
(* exception of an IAM call reaches the outer handler.                     *)
(***************************************************************************)
iam_credential_report(p, f) ==
    IF p.generate_credential_report = "error"
    THEN [f EXCEPT !.issues = Append(@,
            Issue("MEDIUM", Text("IAM credential reports not enabled", ""),
                  "10.2.1",
                  Text("Enable IAM credential reports for access monitoring", "")))]
    ELSE [f EXCEPT !.credential_reports_enabled = TRUE]

iam_access_analyzer(p, f) ==
    CASE p.list_access_analyzers = "error" ->
           [f EXCEPT !.issues = Append(@,
              Issue("MEDIUM", Text("IAM Access Analyzer not available or enabled", ""),
                    "10.2.1",
                    Text("Enable IAM Access Analyzer for policy analysis", "")))]
      [] p.list_access_analyzers = "empty" ->
           [f EXCEPT !.issues = Append(@,
              Issue("MEDIUM", Text("IAM Access Analyzer not enabled", ""),
                    "10.2.1",
                    Text("Enable IAM Access Analyzer for policy analysis", "")))]
      [] p.list_access_analyzers = "analyzers" ->
           [f EXCEPT !.access_analyzer_enabled = TRUE]

iam_try(p, f) == Completed(iam_access_analyzer(p, iam_credential_report(p, f)))

analyze_iam_logging(p) ==
    LET findings == [credential_reports_enabled |-> FALSE,
                     access_analyzer_enabled |-> FALSE, issues |-> <<>>]
        r == iam_try(p, findings)
    IN IF r.raised
       THEN [r.findings EXCEPT !.issues = Append(@,
               Issue("HIGH", Text("Error analyzing IAM logging: {}", ErrorText),
                     "10.2.1",
                     Text("Check IAM permissions and configuration", "")))]
       ELSE r.findings

(***************************************************************************)
(* Remediation script bodies attached to the recommendations.  A script is *)
(* the sequence of its lines or commands.                                  *)
(***************************************************************************)
generate_cloudtrail_script ==
    << Text("#!/bin/bash", ""),
       Text("# Enable CloudTrail", ""),
       Text("aws cloudtrail create-trail --name pci-compliance-trail --s3-bucket-name your-log-bucket-name --is-multi-region-trail --enable-log-file-validation", ""),
       Text("aws cloudtrail start-logging --name pci-compliance-trail", ""),
       Text("echo CloudTrail enabled successfully", "") >>

generate_multi_region_cloudtrail_script ==
    << Text("#!/bin/bash", ""),
       Text("# Enable multi-region CloudTrail", ""),
       Text("aws cloudtrail update-trail --name pci-compliance-trail --is-multi-region-trail", ""),
       Text("echo Multi-region CloudTrail enabled", "") >>

generate_s3_logging_script(buckets) ==
    << Text("#!/bin/bash", ""),
       Text("# Enable S3 access logging for buckets", "") >>
    \o [i \in 1..Len(buckets) |->
          Text("aws s3api put-bucket-logging --bucket {} --bucket-logging-status TargetBucket your-log-bucket-name TargetPrefix {}/", buckets[i])]
    \o << Text("echo S3 access logging enabled for all buckets", "") >>

generate_cloudwatch_retention_script(log_groups) ==
    << Text("#!/bin/bash", ""),
       Text("# Set retention policies for CloudWatch log groups", "") >>
    \o [i \in 1..Len(log_groups) |->
          Text("aws logs put-retention-policy --log-group-name {} --retention-in-days 365", log_groups[i])]
    \o << Text("echo Retention policies set for all log groups", "") >>

generate_rds_logging_script(instances) ==
    << Text("#!/bin/bash", ""),
       Text("# Enable CloudWatch logging for RDS instances", "") >>
    \o [i \in 1..Len(instances) |->
          Text("aws rds modify-db-instance --db-instance-identifier {} --enable-cloudwatch-logs-exports error,general,slow-query --apply-immediately", instances[i])]
    \o << Text("echo CloudWatch logging enabled for all RDS instances", "") >>

(***************************************************************************)
(* generate_recommendations                                                *)
(***************************************************************************)
Recommendation(priority, category, title, description, pci_reference, script, estimated_cost) ==
    [priority |-> priority, category |-> category, title |-> title,
     description |-> description, pci_reference |-> pci_reference,
     script |-> script, estimated_cost |-> estimated_cost]

\* The text "{n} ..." of a description that substitutes a count.
Counted(template, n) == [template |-> template, n |-> n]

rec_cloudtrail(findings) ==
    IF ~findings.cloudtrail.enabled
    THEN << Recommendation("HIGH", "CloudTrail", "Enable CloudTrail",
               Counted("Enable CloudTrail for comprehensive API activity logging", 0),
               "10.2.1-10.2.7", generate_cloudtrail_script,
               "Low (CloudTrail is free for first 5GB/month)") >>
    ELSE << >>
\* variant: multi-region recommended only for an enabled trail
rec_multi_region_when_enabled(findings) ==
    IF findings.cloudtrail.enabled /\ ~findings.cloudtrail.multi_region
    THEN << Recommendation("MEDIUM", "CloudTrail", "Enable Multi-Region CloudTrail",
               Counted("Enable multi-region CloudTrail for comprehensive coverage", 0),
               "10.2.1-10.2.7", generate_multi_region_cloudtrail_script, "Low") >>
    ELSE << >>

rec_multi_region(findings) ==
    IF ~findings.cloudtrail.multi_region
    THEN << Recommendation("MEDIUM", "CloudTrail", "Enable Multi-Region CloudTrail",
               Counted("Enable multi-region CloudTrail for comprehensive coverage", 0),
               "10.2.1-10.2.7", generate_multi_region_cloudtrail_script, "Low") >>
    ELSE << >>
\* variant: one S3 recommendation for every unlogged bucket
rec_s3_per_bucket(findings) ==
    [i \in 1..Len(findings.s3_logging.buckets_without_logging) |->
       Recommendation("MEDIUM", "S3", "Enable S3 Access Logging",
          Counted("Enable access logging for {} S3 buckets", 1),
          "10.2.1",
          generate_s3_logging_script(<<findings.s3_logging.buckets_without_logging[i]>>),
          "Low (S3 access logs are inexpensive)")]

rec_s3(findings) ==
    IF findings.s3_logging.buckets_without_logging # << >>
    THEN << Recommendation("MEDIUM", "S3", "Enable S3 Access Logging",
               Counted("Enable access logging for {} S3 buckets",
                       Len(findings.s3_logging.buckets_without_logging)),
               "10.2.1",
               generate_s3_logging_script(findings.s3_logging.buckets_without_logging),
               "Low (S3 access logs are inexpensive)") >>
    ELSE << >>

rec_cloudwatch(findings) ==
    IF findings.cloudwatch_logs.log_groups_without_retention # << >>
    THEN << Recommendation("MEDIUM", "CloudWatch", "Set Log Retention Policies",
               Counted("Set retention policies for {} log groups",
                       Len(findings.cloudwatch_logs.log_groups_without_retention)),
               "10.5.1.2",
               generate_cloudwatch_retention_script(findings.cloudwatch_logs.log_groups_without_retention),
               "Low (reduces storage costs)") >>
    ELSE << >>

rec_rds(findings) ==
    IF findings.rds_logging.instances_without_logging # << >>
    THEN << Recommendation("MEDIUM", "RDS", "Enable RDS CloudWatch Logging",
               Counted("Enable CloudWatch logging for {} RDS instances",
                       Len(findings.rds_logging.instances_without_logging)),
               "10.2.1",
               generate_rds_logging_script(findings.rds_logging.instances_without_logging),
               "Low") >>
    ELSE << >>
\* variant: an IAM recommendation is appended when the IAM finding has issues
generate_recommendations_with_iam(findings) ==
    rec_cloudtrail(findings) \o rec_multi_region(findings) \o rec_s3(findings)
    \o rec_cloudwatch(findings) \o rec_rds(findings)
    \o (IF findings.iam_logging.issues # << >>
        THEN << Recommendation("MEDIUM", "IAM", "Enable IAM Monitoring",
                   Counted("Enable IAM credential reports and Access Analyzer", 0),
                   "10.2.1", generate_cloudtrail_script, "Low") >>
        ELSE << >>)

\* variant: the S3 check placed ahead of the multi-region check
generate_recommendations_s3_first(findings) ==
    rec_cloudtrail(findings) \o rec_s3(findings) \o rec_multi_region(findings)
    \o rec_cloudwatch(findings) \o rec_rds(findings)

generate_recommendations(findings) ==
    rec_cloudtrail(findings) \o rec_multi_region(findings) \o rec_s3(findings)
    \o rec_cloudwatch(findings) \o rec_rds(findings)

(***************************************************************************)
(* The FindingsReport.  A Python dict iterates in insertion order; a       *)
(* report carries that order in its field "keys" (what findings.keys()     *)
(* lists).  run_analysis inserts the keys in the order ReportKeys.         *)
(***************************************************************************)
ReportKeys ==
    <<"cloudtrail", "s3_logging", "cloudwatch_logs", "rds_logging",
      "iam_logging", "timestamp", "total_issues">>

SkippedKeys == {"timestamp", "total_issues"}

Services ==
    <<"cloudtrail", "s3_logging", "cloudwatch_logs", "rds_logging", "iam_logging">>

RECURSIVE sum_issue_counts_of_services(_, _)
RECURSIVE sum_issue_counts(_, _)
\* variant: counts the findings that have issues, not their issues
sum_issue_counts_of_services(fs, i) ==
    IF i > Len(fs) THEN 0
    ELSE (IF Len(fs[i].issues) > 0 THEN 1 ELSE 0)
         + sum_issue_counts_of_services(fs, i + 1)

\* sum(len(f.get('issues', [])) for f in [...])
sum_issue_counts(fs, i) ==
    IF i > Len(fs) THEN 0
    ELSE Len(fs[i].issues) + sum_issue_counts(fs, i + 1)

Timestamp == "2024-01-01T00:00:00"
\* variant: the IAM finding left out of the total
compile_findings_without_iam(ct, s3, cw, rds, iam) ==
    [cloudtrail |-> ct, s3_logging |-> s3, cloudwatch_logs |-> cw,
     rds_logging |-> rds, iam_logging |-> iam,
     timestamp |-> Timestamp,
     total_issues |-> sum_issue_counts(<<ct, s3, cw, rds>>, 1),
     keys |-> ReportKeys]

compile_findings(ct, s3, cw, rds, iam) ==
    [cloudtrail |-> ct, s3_logging |-> s3, cloudwatch_logs |-> cw,
     rds_logging |-> rds, iam_logging |-> iam,
     timestamp |-> Timestamp,
     total_issues |-> sum_issue_counts(<<ct, s3, cw, rds, iam>>, 1),
     keys |-> ReportKeys]

\* The loop "for category, findings in results['findings'].items()" that
\* collects the issues of every entry but timestamp and total_issues.
RECURSIVE collect_issues(_, _)
collect_issues(findings, k) ==
    IF k > Len(findings.keys) THEN << >>
    ELSE IF findings.keys[k] \in SkippedKeys
         THEN collect_issues(findings, k + 1)
         ELSE findings[findings.keys[k]].issues \o collect_issues(findings, k + 1)

(***************************************************************************)
(* The PCI DSS table of generate_report / get_pci_requirements.            *)
(***************************************************************************)
pci_requirements ==
    <<"10.2.1", "10.2.2", "10.2.3", "10.2.4", "10.2.5", "10.2.6", "10.2.7",
      "10.5.1.2", "10.5.2", "10.5.3">>
\* variant: the membership test without its negation
requirement_status_inverted(req, all_issues) ==
    IF \E i \in 1..Len(all_issues) : all_issues[i].pci_reference = req
    THEN "Compliant" ELSE "Non-Compliant"

\* variant: a range reference also matches the clauses inside the range
requirement_status_ranges(req, all_issues) ==
    IF \E i \in 1..Len(all_issues) :
          \/ all_issues[i].pci_reference = req
          \/ /\ all_issues[i].pci_reference = "10.2.1-10.2.7"
             /\ req \in {"10.2.1", "10.2.2", "10.2.3", "10.2.4", "10.2.5",
                         "10.2.6", "10.2.7"}
    THEN "Non-Compliant" ELSE "Compliant"

\* req not in [issue['pci_reference'] for issue in all_issues]
requirement_status(req, all_issues) ==
    IF \E i \in 1..Len(all_issues) : all_issues[i].pci_reference = req
    THEN "Non-Compliant" ELSE "Compliant"

\* The rows added to compliance_table by generate_report.
report_compliance_table(findings) ==
    LET all_issues == collect_issues(findings, 1)
    IN [r \in 1..Len(pci_requirements) |->
          [req |-> pci_requirements[r],
           status |-> requirement_status(pci_requirements[r], all_issues)]]

\* get_non_compliant_requirements: the distinct non-empty references in
\* order of first appearance.
RECURSIVE dedup_references(_, _, _)
dedup_references(all_issues, i, acc) ==
    IF i > Len(all_issues) THEN acc
    ELSE LET pci_ref == all_issues[i].pci_reference
         IN IF pci_ref # "" /\ ~(\E j \in 1..Len(acc) : acc[j] = pci_ref)
            THEN dedup_references(all_issues, i + 1, Append(acc, pci_ref))
            ELSE dedup_references(all_issues, i + 1, acc)

\* variant: only the issues of the first service are looked at
get_non_compliant_requirements_first_service(findings) ==
    dedup_references(findings[findings.keys[1]].issues, 1, << >>)

get_non_compliant_requirements(findings) ==
    dedup_references(collect_issues(findings, 1), 1, << >>)

(***************************************************************************)
(* IEEE 754 double arithmetic for calculate_compliance_score.              *)
(*                                                                         *)
(* Python evaluates 100 - (weighted_issues / 50) * 100 in binary64, each   *)
(* operation rounded to nearest, ties to even, with 53 significant bits.   *)
(* A double x is held as the natural number x * 2^60, written in limbs of  *)
(* 15 bits, least significant first.  Every double that occurs for         *)
(* 1 <= weighted_issues <= 127 is a multiple of 2^-60 below 2^8, so the    *)
(* representation is exact.                                                *)
(***************************************************************************)
LimbBits == 15
LimbBase == 2^LimbBits
NumLimbs == 6
\* 2^60 = LimbBase^FracLimbs
FracLimbs == 4
\* significant bits of a binary64
MantissaBits == 53

\* n * 2^60 for a small natural n
BigFromInt(n) ==
    [i \in 1..NumLimbs |->
        IF i = FracLimbs + 1 THEN n % LimbBase
        ELSE IF i = FracLimbs + 2 THEN n \div LimbBase
        ELSE 0]

\* floor(a / 2^60)
BigFloor(a) == a[FracLimbs + 1] + LimbBase * a[FracLimbs + 2]

RECURSIVE BigMulCarry(_, _, _, _)
BigMulCarry(a, c, i, carry) ==
    IF i > NumLimbs THEN << >>
    ELSE LET t == a[i] * c + carry
         IN <<t % LimbBase>> \o BigMulCarry(a, c, i + 1, t \div LimbBase)

\* a * c for a small natural c
BigMulSmall(a, c) == BigMulCarry(a, c, 1, 0)

RECURSIVE BigAddCarry(_, _, _)
BigAddCarry(a, i, carry) ==
    IF i > NumLimbs THEN << >>
    ELSE LET t == a[i] + carry
         IN <<t % LimbBase>> \o BigAddCarry(a, i + 1, t \div LimbBase)

\* a + c for a small natural c
BigAddSmall(a, c) == BigAddCarry(a, 1, c)

\* long division by a small d, from the most significant limb down;
\* returns the quotient limbs (most significant first) and the remainder
RECURSIVE BigDivStep(_, _, _, _)
BigDivStep(a, d, i, rem) ==
    IF i < 1 THEN [q |-> << >>, r |-> rem]
    ELSE LET t == rem * LimbBase + a[i]
             rest == BigDivStep(a, d, i - 1, t % d)
         IN [q |-> <<t \div d>> \o rest.q, r |-> rest.r]

BigDivSmall(a, d) ==
    LET res == BigDivStep(a, d, NumLimbs, 0)
    IN [q |-> [i \in 1..NumLimbs |-> res.q[NumLimbs + 1 - i]], r |-> res.r]

RECURSIVE BigSubBorrow(_, _, _, _)
BigSubBorrow(a, b, i, borrow) ==
    IF i > NumLimbs THEN << >>
    ELSE LET t == a[i] - b[i] - borrow
         IN IF t < 0
            THEN <<t + LimbBase>> \o BigSubBorrow(a, b, i + 1, 1)
            ELSE <<t>> \o BigSubBorrow(a, b, i + 1, 0)

\* a - b, for a >= b
BigSub(a, b) == BigSubBorrow(a, b, 1, 0)

RECURSIVE BigLessFrom(_, _, _)
BigLessFrom(a, b, i) ==
    IF i < 1 THEN FALSE
    ELSE IF a[i] # b[i] THEN a[i] < b[i]
    ELSE BigLessFrom(a, b, i - 1)

\* a < b
BigLess(a, b) == BigLessFrom(a, b, NumLimbs)

RECURSIVE SmallBitLen(_)
SmallBitLen(n) == IF n = 0 THEN 0 ELSE 1 + SmallBitLen(n \div 2)

RECURSIVE BigBitLenFrom(_, _)
BigBitLenFrom(a, i) ==
    IF i < 1 THEN 0
    ELSE IF a[i] # 0 THEN (i - 1) * LimbBits + SmallBitLen(a[i])
    ELSE BigBitLenFrom(a, i - 1)

\* number of significant bits of a
BigBitLen(a) == BigBitLenFrom(a, NumLimbs)

\* Round the exact value a (plus a positive fraction below one unit when
\* sticky) to 53 significant bits, to nearest, ties to even.
RoundToDouble(a, sticky) ==
    LET len == BigBitLen(a)
    IN IF len <= MantissaBits THEN a
       ELSE LET shift == len - MantissaBits
                d == BigDivSmall(a, 2^shift)
                half == 2^(shift - 1)
                odd == d.q[1] % 2 = 1
                up == \/ d.r > half
                      \/ d.r = half /\ (sticky \/ odd)
            IN BigMulSmall(IF up THEN BigAddSmall(d.q, 1) ELSE d.q, 2^shift)

\* x / d in binary64, for a natural x and a small natural d
DoubleDivInt(x, d) ==
    LET res == BigDivSmall(BigFromInt(x), d)
    IN RoundToDouble(res.q, res.r # 0)

\* a * c in binary64, for a double a and a small natural c
DoubleMulInt(a, c) == RoundToDouble(BigMulSmall(a, c), FALSE)

(***************************************************************************)
(* calculate_compliance_score                                              *)
(***************************************************************************)
\* severity_weights.get(severity, 1)
severity_weight(severity) ==
    CASE severity = "HIGH" -> 3
      [] severity = "MEDIUM" -> 2
      [] severity = "LOW" -> 1
      [] OTHER -> 1

RECURSIVE weigh_issues_first_doubled(_, _)
RECURSIVE weigh_issues(_, _)
\* variant: the first issue of a list counts twice
weigh_issues_first_doubled(issues, i) ==
    IF i > Len(issues) THEN 0
    ELSE severity_weight(issues[i].severity) * (IF i = 1 THEN 2 ELSE 1)
         + weigh_issues_first_doubled(issues, i + 1)

weigh_issues(issues, i) ==
    IF i > Len(issues) THEN 0
    ELSE severity_weight(issues[i].severity) + weigh_issues(issues, i + 1)

\* the loop over findings.items() that accumulates weighted_issues
RECURSIVE weighted_issues(_, _)
weighted_issues(findings, k) ==
    IF k > Len(findings.keys) THEN 0
    ELSE IF findings.keys[k] \in SkippedKeys
         THEN weighted_issues(findings, k + 1)
         ELSE weigh_issues(findings[findings.keys[k]].issues, 1)
              + weighted_issues(findings, k + 1)

max_possible_issues == 50
\* variant: the floor max(0, ...) left out
score_of_weight_unfloored(weighted) ==
    LET percentage == DoubleMulInt(DoubleDivInt(weighted, max_possible_issues), 100)
        hundred == BigFromInt(100)
    IN IF BigLess(hundred, percentage)
       THEN 0 - BigFloor(RoundToDouble(BigSub(percentage, hundred), FALSE))
       ELSE BigFloor(RoundToDouble(BigSub(hundred, percentage), FALSE))

\* int(max(0, 100 - (weighted / max_possible_issues) * 100))
score_of_weight(weighted) ==
    LET percentage == DoubleMulInt(DoubleDivInt(weighted, max_possible_issues), 100)
        hundred == BigFromInt(100)
    IN IF BigLess(hundred, percentage) THEN 0
       ELSE BigFloor(RoundToDouble(BigSub(hundred, percentage), FALSE))

calculate_compliance_score(findings) ==
    score_of_weight(weighted_issues(findings, 1))

(***************************************************************************)
(* What the AWS APIs answer: one payload per service.                      *)
(***************************************************************************)
Trail(name, get_trail, get_trail_status, logging, multi, validation) ==
    [Name |-> name, get_trail |-> get_trail,
     get_trail_status |-> get_trail_status, IsLogging |-> logging,
     IsMultiRegionTrail |-> multi, LogFileValidationEnabled |-> validation,
     S3BucketName |-> "trail-logs"]

TrailsOf(name) ==
    {Trail(name, "error", "ok", FALSE, FALSE, FALSE),
     Trail(name, "ok", "error", FALSE, FALSE, FALSE),
     Trail(name, "ok", "ok", FALSE, FALSE, FALSE)}
    \cup {Trail(name, "ok", "ok", TRUE, m, v) : m \in BOOLEAN, v \in BOOLEAN}

CloudTrailPayloads(pool) ==
    {[list_trails |-> "error", Trails |-> << >>]}
    \cup UNION {
        {[list_trails |-> "ok", Trails |-> t] :
            t \in {s \in [1..n -> UNION {TrailsOf(ResName(pool, i)) : i \in 1..n}] :
                     \A i \in 1..n : s[i].Name = ResName(pool, i)}}
        : n \in 0..MaxRes}

BucketAnswers ==
    {"LoggingEnabled", "NotConfigured", "NoSuchBucketLoggingConfiguration", "error"}

S3Payloads(pool) ==
    {[list_buckets |-> "error", Buckets |-> << >>]}
    \cup UNION {
        {[list_buckets |-> "ok",
          Buckets |-> [i \in 1..n |-> [Name |-> ResName(pool, i),
                                       get_bucket_logging |-> a[i]]]] :
            a \in [1..n -> BucketAnswers]}
        : n \in 0..MaxRes}

CloudWatchPayloads(pool) ==
    {[describe_log_groups |-> "error", logGroups |-> << >>]}
    \cup UNION {
        {[describe_log_groups |-> "ok",
          logGroups |-> [i \in 1..n |-> [logGroupName |-> ResName(pool, i),
                                         retentionInDays |-> a[i]]]] :
            a \in [1..n -> BOOLEAN]}
        : n \in 0..MaxRes}

RDSPayloads(pool) ==
    {[describe_db_instances |-> "error", DBInstances |-> << >>]}
    \cup UNION {
        {[describe_db_instances |-> "ok",
          DBInstances |-> [i \in 1..n |-> [DBInstanceIdentifier |-> ResName(pool, i),
                                           EnableCloudwatchLogsExports |-> a[i]]]] :
            a \in [1..n -> BOOLEAN]}
        : n \in 0..MaxRes}

IAMPayloads ==
    [generate_credential_report : {"ok", "error"},
     list_access_analyzers : {"analyzers", "empty", "error"}]

\* A service that is in order, and one whose first call fails.
HealthyCloudTrail(pool) ==
    [list_trails |-> "ok",
     Trails |-> << Trail(ResName(pool, 1), "ok", "ok", TRUE, TRUE, TRUE) >>]
FailingCloudTrail == [list_trails |-> "error", Trails |-> << >>]
HealthyS3(pool) ==
    [list_buckets |-> "ok",
     Buckets |-> << [Name |-> ResName(pool, 1), get_bucket_logging |-> "LoggingEnabled"] >>]
FailingS3 == [list_buckets |-> "error", Buckets |-> << >>]
HealthyCloudWatch(pool) ==
    [describe_log_groups |-> "ok",
     logGroups |-> << [logGroupName |-> ResName(pool, 1), retentionInDays |-> TRUE] >>]
FailingCloudWatch == [describe_log_groups |-> "error", logGroups |-> << >>]
HealthyRDS(pool) ==
    [describe_db_instances |-> "ok",
     DBInstances |-> << [DBInstanceIdentifier |-> ResName(pool, 1),
                         EnableCloudwatchLogsExports |-> TRUE] >>]
FailingRDS == [describe_db_instances |-> "error", DBInstances |-> << >>]
HealthyIAM == [generate_credential_report |-> "ok", list_access_analyzers |-> "analyzers"]
FailingIAM == [generate_credential_report |-> "error", list_access_analyzers |-> "error"]

Account(ct, s3, cw, rds, iam) ==
    [cloudtrail |-> ct, s3 |-> s3, logs |-> cw, rds |-> rds, iam |-> iam]

\* Accounts in which one service ranges over all its payloads while each
\* of the others is either in order or failing.
VariedAccounts(pool) ==
    LET CT == {HealthyCloudTrail(pool), FailingCloudTrail}
        S3 == {HealthyS3(pool), FailingS3}
        CW == {HealthyCloudWatch(pool), FailingCloudWatch}
        RD == {HealthyRDS(pool), FailingRDS}
        IA == {HealthyIAM, FailingIAM}
    IN {Account(ct, s3, cw, rds, iam) :
            ct \in CloudTrailPayloads(pool), s3 \in S3, cw \in CW, rds \in RD, iam \in IA}
       \cup {Account(ct, s3, cw, rds, iam) :
            ct \in CT, s3 \in S3Payloads(pool), cw \in CW, rds \in RD, iam \in IA}
       \cup {Account(ct, s3, cw, rds, iam) :
            ct \in CT, s3 \in S3, cw \in CloudWatchPayloads(pool), rds \in RD, iam \in IA}
       \cup {Account(ct, s3, cw, rds, iam) :
            ct \in CT, s3 \in S3, cw \in CW, rds \in RDSPayloads(pool), iam \in IA}
       \cup {Account(ct, s3, cw, rds, iam) :
            ct \in CT, s3 \in S3, cw \in CW, rds \in RD, iam \in IAMPayloads}

\* The account of the end-to-end example: no trail, 3 of 5 buckets without
\* access logging, 5 of 8 log groups without retention, 2 of 3 instances
\* without log exports, no credential report and no Access Analyzer.
Bucket(name, answer) == [Name |-> name, get_bucket_logging |-> answer]
LogGroup(name, retention) == [logGroupName |-> name, retentionInDays |-> retention]
DBInstance(name, exports) ==
    [DBInstanceIdentifier |-> name, EnableCloudwatchLogsExports |-> exports]

ExampleAccount ==
    Account(
        [list_trails |-> "ok", Trails |-> << >>],
        [list_buckets |-> "ok",
         Buckets |-> << Bucket("bucket1", "NotConfigured"),
                        Bucket("bucket2", "NotConfigured"),
                        Bucket("bucket3", "NotConfigured"),
                        Bucket("bucket4", "LoggingEnabled"),
                        Bucket("bucket5", "LoggingEnabled") >>],
        [describe_log_groups |-> "ok",
         logGroups |-> << LogGroup("/aws/lambda/app1", FALSE),
                          LogGroup("/aws/lambda/app2", FALSE),
                          LogGroup("/aws/rds/instance1", FALSE),
                          LogGroup("/aws/rds/instance2", FALSE),
                          LogGroup("/aws/ec2/security", FALSE),
                          LogGroup("/aws/lambda/app3", TRUE),
                          LogGroup("/aws/lambda/app4", TRUE),
                          LogGroup("/aws/vpc/flow", TRUE) >>],
        [describe_db_instances |-> "ok",
         DBInstances |-> << DBInstance("db-instance-1", FALSE),
                            DBInstance("db-instance-2", FALSE),
                            DBInstance("db-instance-3", TRUE) >>],
        [generate_credential_report |-> "error", list_access_analyzers |-> "empty"])

Accounts == {ExampleAccount} \cup UNION {VariedAccounts(pool) : pool \in PoolIds}

(***************************************************************************)
(* JSON.  A Python value is kept with its type; json.dumps turns it into   *)
(* the tokens of a JSON text and json.loads parses the tokens back.  The   *)
(* characters of a string are not modelled: a string token carries the     *)
(* string.                                                                 *)
(***************************************************************************)
PyNone == [py |-> "None"]
PyBool(b) == [py |-> "bool", v |-> b]
PyInt(n) == [py |-> "int", v |-> n]
PyStr(x) == [py |-> "str", v |-> x]
PyList(items) == [py |-> "list", v |-> items]
\* a dict: its items, <<key, value>>, in insertion order
PyDict(items) == [py |-> "dict", v |-> items]
\* an object json cannot encode by itself (a datetime, say); text is str(o)
PyObject(text) == [py |-> "object", v |-> text]

\* The Python types of the values a service entry of the findings holds.
EntryFields(key) ==
    CASE key = "cloudtrail" ->
           << <<"enabled", "bool">>, <<"multi_region", "bool">>,
              <<"log_file_validation", "bool">>, <<"s3_bucket", "optional_str">>,
              <<"issues", "issues">> >>
      [] key = "s3_logging" ->
           << <<"buckets_analyzed", "int">>, <<"buckets_with_logging", "int">>,
              <<"buckets_without_logging", "names">>, <<"issues", "issues">> >>
      [] key = "cloudwatch_logs" ->
           << <<"log_groups", "int">>, <<"log_groups_with_retention", "int">>,
              <<"log_groups_without_retention", "names">>, <<"issues", "issues">> >>
      [] key = "rds_logging" ->
           << <<"instances", "int">>, <<"instances_with_logging", "int">>,
              <<"instances_without_logging", "names">>, <<"issues", "issues">> >>
      [] key = "iam_logging" ->
           << <<"credential_reports_enabled", "bool">>,
              <<"access_analyzer_enabled", "bool">>, <<"issues", "issues">> >>

py_issue(issue) ==
    PyDict(<< <<"severity", PyStr(issue.severity)>>,
              <<"description", PyStr(issue.description)>>,
              <<"pci_reference", PyStr(issue.pci_reference)>>,
              <<"recommendation", PyStr(issue.recommendation)>> >>)

py_field(type, x) ==
    CASE type = "bool" -> PyBool(x)
      [] type = "int" -> PyInt(x)
      [] type = "optional_str" -> IF x = "None" THEN PyNone ELSE PyStr(x)
      [] type = "names" -> PyList([i \in 1..Len(x) |-> PyStr(x[i])])
      [] type = "issues" -> PyList([i \in 1..Len(x) |-> py_issue(x[i])])

\* the value found under a key of the findings
py_entry(key, value) ==
    CASE key = "timestamp" -> PyStr(value)
      [] key = "total_issues" -> PyInt(value)
      [] OTHER ->
           LET fields == EntryFields(key)
           IN PyDict([i \in 1..Len(fields) |->
                        <<fields[i][1], py_field(fields[i][2], value[fields[i][1]])>>])

\* the findings dict
py_findings(findings) ==
    PyDict([k \in 1..Len(findings.keys) |->
              <<findings.keys[k], py_entry(findings.keys[k], findings[findings.keys[k]])>>])

\* the decimal digits of a non-negative int, most significant first
RECURSIVE Digits(_)
Digits(n) == IF n < 10 THEN <<n>> ELSE Append(Digits(n \div 10), n % 10)

RECURSIVE FromDigits(_, _, _)
FromDigits(ds, i, acc) ==
    IF i > Len(ds) THEN acc ELSE FromDigits(ds, i + 1, acc * 10 + ds[i])

Token(t) == [t |-> t]
ValueToken(t, v) == [t |-> t, v |-> v]

RECURSIVE json_dumps(_)
RECURSIVE dumps_items_without_last(_, _)
RECURSIVE dumps_items(_, _)
RECURSIVE dumps_members(_, _)
\* variant: the last item of an array is not written
dumps_items_without_last(items, i) ==
    IF i >= Len(items) THEN << >>
    ELSE (IF i > 1 THEN <<Token(",")>> ELSE << >>)
         \o json_dumps(items[i]) \o dumps_items_without_last(items, i + 1)

\* the items of an array, separated by commas
dumps_items(items, i) ==
    IF i > Len(items) THEN << >>
    ELSE (IF i > 1 THEN <<Token(",")>> ELSE << >>)
         \o json_dumps(items[i]) \o dumps_items(items, i + 1)

\* the members of an object, "key": value, separated by commas
dumps_members(items, i) ==
    IF i > Len(items) THEN << >>
    ELSE (IF i > 1 THEN <<Token(",")>> ELSE << >>)
         \o <<ValueToken("string", items[i][1]), Token(":")>>
         \o json_dumps(items[i][2]) \o dumps_members(items, i + 1)

\* json.dumps(value, indent=2, default=str)
json_dumps(value) ==
    CASE value.py = "None" -> <<Token("null")>>
      [] value.py = "bool" -> <<Token(IF value.v THEN "true" ELSE "false")>>
      [] value.py = "int" -> <<ValueToken("number", Digits(value.v))>>
      [] value.py = "str" -> <<ValueToken("string", value.v)>>
      [] value.py = "list" ->
           <<Token("[")>> \o dumps_items(value.v, 1) \o <<Token("]")>>
      [] value.py = "dict" ->
           <<Token("{")>> \o dumps_members(value.v, 1) \o <<Token("}")>>
      [] OTHER -> <<ValueToken("string", value.v)>>

\* Result of parsing: the value read and the position after it, or an error.
Parsed(value, next) == [value |-> value, next |-> next, error |-> FALSE]
JSONDecodeError == [value |-> PyNone, next |-> 0, error |-> TRUE]

RECURSIVE parse_value(_, _)
RECURSIVE parse_array(_, _, _)
RECURSIVE parse_object(_, _, _)
\* the items of an array from position i on; acc holds the items read
parse_array(tokens, i, acc) ==
    IF i > Len(tokens) THEN JSONDecodeError
    ELSE IF tokens[i].t = "]" /\ acc = << >> THEN Parsed(PyList(acc), i + 1)
    ELSE LET item == parse_value(tokens, i)
         IN IF item.error \/ item.next > Len(tokens) THEN JSONDecodeError
            ELSE IF tokens[item.next].t = ","
                 THEN parse_array(tokens, item.next + 1, Append(acc, item.value))
            ELSE IF tokens[item.next].t = "]"
                 THEN Parsed(PyList(Append(acc, item.value)), item.next + 1)
            ELSE JSONDecodeError

\* the members of an object from position i on
parse_object(tokens, i, acc) ==
    IF i > Len(tokens) THEN JSONDecodeError
    ELSE IF tokens[i].t = "}" /\ acc = << >> THEN Parsed(PyDict(acc), i + 1)
    ELSE IF i + 2 > Len(tokens) \/ tokens[i].t # "string" \/ tokens[i + 1].t # ":"
         THEN JSONDecodeError
    ELSE LET member == parse_value(tokens, i + 2)
             items == Append(acc, <<tokens[i].v, member.value>>)
         IN IF member.error \/ member.next > Len(tokens) THEN JSONDecodeError
            ELSE IF tokens[member.next].t = ","
                 THEN parse_object(tokens, member.next + 1, items)
            ELSE IF tokens[member.next].t = "}"
                 THEN Parsed(PyDict(items), member.next + 1)
            ELSE JSONDecodeError

parse_value(tokens, i) ==
    IF i > Len(tokens) THEN JSONDecodeError
    ELSE CASE tokens[i].t = "null" -> Parsed(PyNone, i + 1)
           [] tokens[i].t = "true" -> Parsed(PyBool(TRUE), i + 1)
           [] tokens[i].t = "false" -> Parsed(PyBool(FALSE), i + 1)
           [] tokens[i].t = "number" ->
                Parsed(PyInt(FromDigits(tokens[i].v, 1, 0)), i + 1)
           [] tokens[i].t = "string" -> Parsed(PyStr(tokens[i].v), i + 1)
           [] tokens[i].t = "[" -> parse_array(tokens, i + 1, << >>)
           [] tokens[i].t = "{" -> parse_object(tokens, i + 1, << >>)
           [] OTHER -> JSONDecodeError

\* json.loads(text): one value and nothing after it
json_loads(tokens) ==
    LET r == parse_value(tokens, 1)
    IN IF r.error \/ r.next # Len(tokens) + 1 THEN JSONDecodeError ELSE r

\* The parsed value as the model writes Python values: None as "None", a
\* list as a sequence, a dict as a record (a later duplicate key wins).
RECURSIVE from_py(_)
from_py(value) ==
    CASE value.py = "None" -> "None"
      [] value.py = "list" -> [i \in 1..Len(value.v) |-> from_py(value.v[i])]
      [] value.py = "dict" ->
           [k \in {value.v[i][1] : i \in 1..Len(value.v)} |->
              LET last == CHOOSE i \in 1..Len(value.v) :
                             /\ value.v[i][1] = k
                             /\ \A j \in (i + 1)..Len(value.v) : value.v[j][1] # k
              IN from_py(value.v[last][2])]
      [] OTHER -> value.v

\* a findings dict as loaded: its entries and the order of its keys
findings_from_py(value) ==
    [k \in {value.v[i][1] : i \in 1..Len(value.v)} \cup {"keys"} |->
       IF k = "keys" THEN [i \in 1..Len(value.v) |-> value.v[i][1]]
       ELSE from_py(value)[k]]

(***************************************************************************)
(* ReportGenerator: the cost estimate and the three report formats.        *)
(***************************************************************************)
\* estimate_monthly_cost: f"${base_cost:.0f}"
estimate_monthly_cost(findings) ==
    LET base_cost == 50 + (IF ~findings.cloudtrail.enabled THEN 5 ELSE 0)
        s3_buckets == findings.s3_logging.buckets_analyzed
        cloudwatch_logs == findings.cloudwatch_logs.log_groups
        rds_instances == findings.rds_logging.instances
    IN Text("${}", base_cost + s3_buckets * 2 + cloudwatch_logs * 1
                   + rds_instances * 3)

\* "Prepare all issues for template": the issues with their category
RECURSIVE template_issues(_, _)
template_issues(findings, k) ==
    IF k > Len(findings.keys) THEN << >>
    ELSE IF findings.keys[k] \in SkippedKeys
         THEN template_issues(findings, k + 1)
         ELSE LET issues == findings[findings.keys[k]].issues
              IN [i \in 1..Len(issues) |->
                    [category |-> Text("upper", findings.keys[k]),
                     severity |-> issues[i].severity,
                     description |-> issues[i].description,
                     pci_reference |-> issues[i].pci_reference]]
                 \o template_issues(findings, k + 1)

\* generate_html_report: what the template is rendered with
generate_html_report(findings, recommendations, generate_scripts) ==
    [format |-> "html",
     timestamp |-> Timestamp,
     total_issues |-> findings.total_issues,
     total_recommendations |-> Len(recommendations),
     compliance_score |-> calculate_compliance_score(findings),
     estimated_cost |-> estimate_monthly_cost(findings),
     cloudtrail |-> findings.cloudtrail,
     s3_logging |-> findings.s3_logging,
     cloudwatch_logs |-> findings.cloudwatch_logs,
     rds_logging |-> findings.rds_logging,
     all_issues |-> template_issues(findings, 1),
     recommendations |-> recommendations,
     pci_requirements |-> pci_requirements,
     non_compliant_requirements |-> get_non_compliant_requirements(findings),
     generate_scripts |-> generate_scripts]

\* report_data of generate_json_report and generate_yaml_report
report_data(findings, recommendations) ==
    [metadata |-> [generated_at |-> Timestamp, tool_version |-> "1.0.0",
                   pci_dss_version |-> "v4.0.1"],
     summary |-> [total_issues |-> findings.total_issues,
                  total_recommendations |-> Len(recommendations),
                  compliance_score |-> calculate_compliance_score(findings),
                  estimated_monthly_cost |-> estimate_monthly_cost(findings)],
     findings |-> findings,
     recommendations |-> recommendations,
     pci_compliance |->
        [requirements |-> pci_requirements,
         non_compliant_requirements |-> get_non_compliant_requirements(findings)]]

generate_json_report(findings, recommendations) ==
    [format |-> "json", data |-> report_data(findings, recommendations)]

generate_yaml_report(findings, recommendations) ==
    [format |-> "yaml", data |-> report_data(findings, recommendations)]

(***************************************************************************)
(* RemediationScriptGenerator.  The generator object is the record of the  *)
(* attributes __init__ sets; reading an attribute it does not have raises  *)
(* AttributeError.  What a generating method did is the list of the files  *)
(* written so far and the exception that ended it, "" if none.             *)
(***************************************************************************)
\* variant: FileNotFoundError is not caught
load_config_propagating(config_file) ==
    CASE config_file = "missing" ->
           [config |-> "None", warned |-> FALSE, error |-> "FileNotFoundError"]
      [] config_file = "invalid" ->
           [config |-> "None", warned |-> FALSE, error |-> "YAMLError"]
      [] OTHER ->
           [config |-> "pci_dss_config", warned |-> FALSE, error |-> ""]

\* _load_config: a missing file is answered with a warning and {}; a file
\* that is not YAML makes yaml.safe_load raise
load_config(config_file) ==
    CASE config_file = "missing" ->
           [config |-> "{}", warned |-> TRUE, error |-> ""]
      [] config_file = "invalid" ->
           [config |-> "None", warned |-> FALSE, error |-> "YAMLError"]
      [] OTHER ->
           [config |-> "pci_dss_config", warned |-> FALSE, error |-> ""]

\* __init__: self.config and self.templates, nothing else
RemediationScriptGenerator(config) ==
    [config |-> config, templates |-> "templates"]

HasAttr(self, name) == name \in DOMAIN self

Wrote(out, name, content) ==
    [files |-> Append(out.files, [name |-> name, content |-> content]),
     error |-> ""]

Raised(out, error) == [files |-> out.files, error |-> error]

NothingWritten == [files |-> << >>, error |-> ""]

\* the template s3_logging_setup rendered with buckets
s3_logging_setup(buckets) ==
    << Text("#!/bin/bash", ""),
       Text("# S3 Access Logging Setup Script", ""),
       Text("# PCI DSS Requirement: {}", "10.2.1"),
       Text("set -e", ""),
       Text("LOG_BUCKET={}", "pci-s3-logs-bucket"),
       Text("LOG_PREFIX={}", "s3-access-logs"),
       Text("aws s3 mb s3://$LOG_BUCKET --region {}", "region") >>
    \o [i \in 1..(2 * Len(buckets)) |->
          IF i % 2 = 1
          THEN Text("echo Enabling access logging for bucket: {}", buckets[(i + 1) \div 2])
          ELSE Text("aws s3api put-bucket-logging --bucket {} --bucket-logging-status TargetBucket $LOG_BUCKET TargetPrefix $LOG_PREFIX/{}/",
                    buckets[i \div 2])]
    \o << Text("echo S3 access logging setup complete!", "") >>

\* the template cloudwatch_retention_setup rendered with log_groups
cloudwatch_retention_setup(log_groups) ==
    << Text("#!/bin/bash", ""),
       Text("# CloudWatch Logs Retention Setup Script", ""),
       Text("# PCI DSS Requirement: {}", "10.5.1.2"),
       Text("set -e", "") >>
    \o [i \in 1..(2 * Len(log_groups)) |->
          IF i % 2 = 1
          THEN Text("echo Setting retention policy for: {}", log_groups[(i + 1) \div 2])
          ELSE Text("aws logs put-retention-policy --log-group-name {} --retention-in-days 365",
                    log_groups[i \div 2])]
    \o << Text("echo CloudWatch Logs retention policies set successfully!", "") >>

\* the template rds_logging_setup rendered with instances
rds_logging_setup(instances) ==
    << Text("#!/bin/bash", ""),
       Text("# RDS CloudWatch Logging Setup Script", ""),
       Text("# PCI DSS Requirement: {}", "10.2.1"),
       Text("set -e", "") >>
    \o [i \in 1..(2 * Len(instances)) |->
          IF i % 2 = 1
          THEN Text("echo Enabling CloudWatch logging for RDS instance: {}", instances[(i + 1) \div 2])
          ELSE Text("aws rds modify-db-instance --db-instance-identifier {} --enable-cloudwatch-logs-exports error,general,slow-query --apply-immediately",
                    instances[i \div 2])]
    \o << Text("echo RDS CloudWatch logging setup complete!", "") >>

\* a script rendered from a template without loops over the findings
fixed_script(template) == << Text("#!/bin/bash", ""), Text("# {}", template) >>

\* the text generate_master_script builds: the invocation of a conditional
\* script is added when its condition holds for the findings
master_script(findings) ==
    << Text("#!/bin/bash", ""), Text("# Master Remediation Script", "") >>
    \o (IF ~findings.cloudtrail.enabled
        THEN << Text("./setup_cloudtrail.sh", "") >> ELSE << >>)
    \o (IF findings.s3_logging.buckets_without_logging # << >>
        THEN << Text("./setup_s3_logging.sh", "") >> ELSE << >>)
    \o (IF findings.cloudwatch_logs.log_groups_without_retention # << >>
        THEN << Text("./setup_cloudwatch_retention.sh", "") >> ELSE << >>)
    \o (IF findings.rds_logging.instances_without_logging # << >>
        THEN << Text("./setup_rds_logging.sh", "") >> ELSE << >>)
    \o << Text("./setup_iam_monitoring.sh", ""),
          Text("./setup_monitoring_alerts.sh", ""),
          Text("./setup_cost_optimization.sh", "") >>

\* variant: the CloudTrail script is selected unless the trail is multi-region
conditional_scripts_by_multi_region(findings) ==
    (IF ~findings.cloudtrail.multi_region THEN <<"setup_cloudtrail.sh">> ELSE << >>)
    \o (IF findings.s3_logging.buckets_without_logging # << >>
        THEN <<"setup_s3_logging.sh">> ELSE << >>)
    \o (IF findings.cloudwatch_logs.log_groups_without_retention # << >>
        THEN <<"setup_cloudwatch_retention.sh">> ELSE << >>)
    \o (IF findings.rds_logging.instances_without_logging # << >>
        THEN <<"setup_rds_logging.sh">> ELSE << >>)

\* the "if" conditions of generate_all_scripts: the conditional scripts it
\* sets out to generate for the findings, in the order of the code
conditional_scripts(findings) ==
    (IF ~findings.cloudtrail.enabled THEN <<"setup_cloudtrail.sh">> ELSE << >>)
    \o (IF findings.s3_logging.buckets_without_logging # << >>
        THEN <<"setup_s3_logging.sh">> ELSE << >>)
    \o (IF findings.cloudwatch_logs.log_groups_without_retention # << >>
        THEN <<"setup_cloudwatch_retention.sh">> ELSE << >>)
    \o (IF findings.rds_logging.instances_without_logging # << >>
        THEN <<"setup_rds_logging.sh">> ELSE << >>)

\* RemediationScriptGenerator.generate_cloudtrail_script: region=self.region,
\* account_id=self.account_id are evaluated before the template is rendered
Remediation_generate_cloudtrail_script(self, out) ==
    IF ~HasAttr(self, "region") THEN Raised(out, "AttributeError: region")
    ELSE IF ~HasAttr(self, "account_id")
    THEN Raised(out, "AttributeError: account_id")
    ELSE Wrote(out, "setup_cloudtrail.sh", fixed_script("cloudtrail_setup"))

\* RemediationScriptGenerator.generate_s3_logging_script
Remediation_generate_s3_logging_script(self, buckets, out) ==
    IF ~HasAttr(self, "region") THEN Raised(out, "AttributeError: region")
    ELSE Wrote(out, "setup_s3_logging.sh", s3_logging_setup(buckets))

\* RemediationScriptGenerator.generate_cloudwatch_retention_script
Remediation_generate_cloudwatch_retention_script(self, log_groups, out) ==
    Wrote(out, "setup_cloudwatch_retention.sh", cloudwatch_retention_setup(log_groups))

\* RemediationScriptGenerator.generate_rds_logging_script
Remediation_generate_rds_logging_script(self, instances, out) ==
    Wrote(out, "setup_rds_logging.sh", rds_logging_setup(instances))

\* RemediationScriptGenerator.generate_iam_monitoring_script
Remediation_generate_iam_monitoring_script(self, out) ==
    IF ~HasAttr(self, "region") THEN Raised(out, "AttributeError: region")
    ELSE Wrote(out, "setup_iam_monitoring.sh", fixed_script("iam_monitoring_setup"))

\* RemediationScriptGenerator.generate_monitoring_alerts_script
Remediation_generate_monitoring_alerts_script(self, out) ==
    IF ~HasAttr(self, "region") THEN Raised(out, "AttributeError: region")
    ELSE Wrote(out, "setup_monitoring_alerts.sh", fixed_script("monitoring_alerts_setup"))

\* RemediationScriptGenerator.generate_cost_optimization_script
Remediation_generate_cost_optimization_script(self, out) ==
    Wrote(out, "setup_cost_optimization.sh", fixed_script("cost_optimization_setup"))

\* RemediationScriptGenerator.generate_master_script
Remediation_generate_master_script(self, findings, out) ==
    Wrote(out, "run_all_remediation.sh", master_script(findings))

\* one call of generate_all_scripts: the method that writes the script
generate_script(self, findings, name, out) ==
    CASE name = "setup_cloudtrail.sh" ->
           Remediation_generate_cloudtrail_script(self, out)
      [] name = "setup_s3_logging.sh" ->
           Remediation_generate_s3_logging_script(
              self, findings.s3_logging.buckets_without_logging, out)
      [] name = "setup_cloudwatch_retention.sh" ->
           Remediation_generate_cloudwatch_retention_script(
              self, findings.cloudwatch_logs.log_groups_without_retention, out)
      [] name = "setup_rds_logging.sh" ->
           Remediation_generate_rds_logging_script(
              self, findings.rds_logging.instances_without_logging, out)
      [] name = "setup_iam_monitoring.sh" ->
           Remediation_generate_iam_monitoring_script(self, out)
      [] name = "setup_monitoring_alerts.sh" ->
           Remediation_generate_monitoring_alerts_script(self, out)
      [] name = "setup_cost_optimization.sh" ->
           Remediation_generate_cost_optimization_script(self, out)
      [] OTHER -> Remediation_generate_master_script(self, findings, out)

\* the calls of generate_all_scripts from the k-th on; an exception raised
\* by one of them ends the function
RECURSIVE generate_scripts_from(_, _, _, _, _)
generate_scripts_from(self, findings, names, k, out) ==
    IF k > Len(names) \/ out.error # "" THEN out
    ELSE generate_scripts_from(self, findings, names, k + 1,
                               generate_script(self, findings, names[k], out))

\* generate_all_scripts: the conditional scripts, then the three scripts
\* that are always generated, then the master script
generate_all_scripts(self, findings) ==
    generate_scripts_from(self, findings,
        conditional_scripts(findings)
        \o <<"setup_iam_monitoring.sh", "setup_monitoring_alerts.sh",
              "setup_cost_optimization.sh", "run_all_remediation.sh">>,
        1, NothingWritten)

(***************************************************************************)
(* Spec: main of aws_log_review.py calling run_analysis, then the report.  *)
(***************************************************************************)
\* An analysis function that lets an exception escape returns this.
Exception == [exception |-> TRUE]
IsException(v) == "exception" \in DOMAIN v

JsonIdle ==
    /\ findings_file = NoValue
    /\ reloaded = NoValue

FlowIdle ==
    /\ swapped = 0
    /\ cost = NoValue
    /\ written = << >>
    /\ scripts = NoValue

CliIdle ==
    /\ cli = NoValue
    /\ cli_pc = "idle"
    /\ cli_log = << >>
    /\ cli_files = {}
    /\ exit_code = -1

ReportIdle ==
    /\ report = NoValue
    /\ added = 0
    /\ phase = "idle"
    /\ recs = NoValue
    /\ score = -1
    /\ non_compliant = NoValue
    /\ table = NoValue

Init ==
    /\ account \in Accounts
    /\ pc = "cloudtrail"
    /\ calls = << >>
    /\ cloudtrail_findings = NoValue
    /\ s3_findings = NoValue
    /\ cloudwatch_findings = NoValue
    /\ rds_findings = NoValue
    /\ iam_findings = NoValue
    /\ results = NoValue
    /\ compliance_table = NoValue
    /\ ReportIdle
    /\ JsonIdle
    /\ FlowIdle
    /\ CliIdle

\* an exception that leaves run_analysis is caught by main, which exits 1
After(value, next) == IF IsException(value) THEN "exit1" ELSE next

AnalyzeCloudTrail ==
    /\ pc = "cloudtrail"
    /\ calls' = Append(calls, "analyze_cloudtrail")
    /\ cloudtrail_findings' = analyze_cloudtrail(account.cloudtrail)
    /\ pc' = After(cloudtrail_findings', "s3")
    /\ UNCHANGED <<account, s3_findings, cloudwatch_findings, rds_findings,
                   iam_findings, results, compliance_table>>
    /\ UNCHANGED <<reportVars, jsonVars, flowVars, cliVars>>

AnalyzeS3 ==
    /\ pc = "s3"
    /\ calls' = Append(calls, "analyze_s3_logging")
    /\ s3_findings' = analyze_s3_logging(account.s3)
    /\ pc' = After(s3_findings', "cloudwatch")
    /\ UNCHANGED <<account, cloudtrail_findings, cloudwatch_findings,
                   rds_findings, iam_findings, results, compliance_table>>
    /\ UNCHANGED <<reportVars, jsonVars, flowVars, cliVars>>

AnalyzeCloudWatch ==
    /\ pc = "cloudwatch"
    /\ calls' = Append(calls, "analyze_cloudwatch_logs")
    /\ cloudwatch_findings' = analyze_cloudwatch_logs(account.logs)
    /\ pc' = After(cloudwatch_findings', "rds")
    /\ UNCHANGED <<account, cloudtrail_findings, s3_findings, rds_findings,
                   iam_findings, results, compliance_table>>
    /\ UNCHANGED <<reportVars, jsonVars, flowVars, cliVars>>

AnalyzeRDS ==
    /\ pc = "rds"
    /\ calls' = Append(calls, "analyze_rds_logging")
    /\ rds_findings' = analyze_rds_logging(account.rds)
    /\ pc' = After(rds_findings', "iam")
    /\ UNCHANGED <<account, cloudtrail_findings, s3_findings,
                   cloudwatch_findings, iam_findings, results, compliance_table>>
    /\ UNCHANGED <<reportVars, jsonVars, flowVars, cliVars>>

AnalyzeIAM ==
    /\ pc = "iam"
    /\ calls' = Append(calls, "analyze_iam_logging")
    /\ iam_findings' = analyze_iam_logging(account.iam)
    /\ pc' = After(iam_findings', "compile")
    /\ UNCHANGED <<account, cloudtrail_findings, s3_findings,
                   cloudwatch_findings, rds_findings, results, compliance_table>>
    /\ UNCHANGED <<reportVars, jsonVars, flowVars, cliVars>>

\* "Compile all findings", generate the recommendations and return
Compile ==
    /\ pc = "compile"
    /\ LET all_findings == compile_findings(cloudtrail_findings, s3_findings,
                               cloudwatch_findings, rds_findings, iam_findings)
       IN results' = [findings |-> all_findings,
                      recommendations |-> generate_recommendations(all_findings)]
    /\ pc' = "returned"
    /\ UNCHANGED <<account, calls, cloudtrail_findings, s3_findings,
                   cloudwatch_findings, rds_findings, iam_findings,
                   compliance_table>>
    /\ UNCHANGED <<reportVars, jsonVars, flowVars, cliVars>>

\* generate_report(results, generate_scripts): the PCI DSS compliance summary
GenerateReport ==
    /\ pc = "returned"
    /\ compliance_table' = report_compliance_table(results.findings)
    /\ pc' = "reported"
    /\ UNCHANGED <<account, calls, cloudtrail_findings, s3_findings,
                   cloudwatch_findings, rds_findings, iam_findings, results>>
    /\ UNCHANGED <<reportVars, jsonVars, flowVars, cliVars>>

\* json.dump(findings, f, indent=2, default=str): findings.json is written
DumpFindings ==
    /\ pc = "returned"
    /\ findings_file' = json_dumps(py_findings(results.findings))
    /\ pc' = "dumped"
    /\ UNCHANGED <<account, calls, cloudtrail_findings, s3_findings,
                   cloudwatch_findings, rds_findings, iam_findings, results,
                   compliance_table, reloaded>>
    /\ UNCHANGED <<reportVars, flowVars, cliVars>>

\* findings = json.load(f): findings.json is read back
LoadFindings ==
    /\ pc = "dumped"
    /\ LET r == json_loads(findings_file)
       IN IF r.error
          THEN /\ reloaded' = JSONDecodeError
               /\ pc' = "exit1"
          ELSE /\ reloaded' = findings_from_py(r.value)
               /\ pc' = "loaded"
    /\ UNCHANGED <<account, calls, cloudtrail_findings, s3_findings,
                   cloudwatch_findings, rds_findings, iam_findings, results,
                   compliance_table, findings_file>>
    /\ UNCHANGED <<reportVars, flowVars, cliVars>>

Next ==
    \/ AnalyzeCloudTrail
    \/ AnalyzeS3
    \/ AnalyzeCloudWatch
    \/ AnalyzeRDS
    \/ AnalyzeIAM
    \/ Compile
    \/ GenerateReport
    \/ DumpFindings
    \/ LoadFindings

Spec == Init /\ [][Next]_vars

(***************************************************************************)
(* SpecReport: FindingsReports that need not come from run_analysis.       *)
(***************************************************************************)
\* create_sample_findings of example_usage.py
create_sample_findings ==
    [cloudtrail |->
        [enabled |-> FALSE, multi_region |-> FALSE,
         log_file_validation |-> FALSE, s3_bucket |-> "None",
         issues |-> << Issue("HIGH", Text("No CloudTrail trails found", ""),
                             "10.2.1-10.2.7",
                             Text("Enable CloudTrail for API activity logging", "")) >>],
     s3_logging |->
        [buckets_analyzed |-> 5, buckets_with_logging |-> 2,
         buckets_without_logging |-> <<"bucket1", "bucket2", "bucket3">>,
         issues |-> << S3Unlogged("bucket1"), S3Unlogged("bucket2"),
                       S3Unlogged("bucket3") >>],
     cloudwatch_logs |->
        [log_groups |-> 8, log_groups_with_retention |-> 3,
         log_groups_without_retention |->
            <<"/aws/lambda/app1", "/aws/lambda/app2", "/aws/rds/instance1",
              "/aws/rds/instance2", "/aws/ec2/security">>,
         issues |->
            [i \in 1..5 |->
               LET name == <<"/aws/lambda/app1", "/aws/lambda/app2",
                             "/aws/rds/instance1", "/aws/rds/instance2",
                             "/aws/ec2/security">>[i]
               IN Issue("MEDIUM",
                        Text("CloudWatch Log Group {} has no retention policy", name),
                        "10.5.1.2",
                        Text("Set retention policy for log group {}", name))]],
     rds_logging |->
        [instances |-> 3, instances_with_logging |-> 1,
         instances_without_logging |-> <<"db-instance-1", "db-instance-2">>,
         issues |->
            [i \in 1..2 |->
               LET name == <<"db-instance-1", "db-instance-2">>[i]
               IN Issue("MEDIUM",
                        Text("RDS instance {} does not have CloudWatch logging enabled", name),
                        "10.2.1",
                        Text("Enable CloudWatch logging for RDS instance {}", name))]],
     iam_logging |->
        [credential_reports_enabled |-> FALSE, access_analyzer_enabled |-> FALSE,
         issues |-> << Issue("MEDIUM", Text("IAM credential reports not enabled", ""),
                             "10.2.1",
                             Text("Enable IAM credential reports for access monitoring", "")),
                       Issue("MEDIUM", Text("IAM Access Analyzer not enabled", ""),
                             "10.2.1",
                             Text("Enable IAM Access Analyzer for policy analysis", "")) >>],
     timestamp |-> Timestamp,
     total_issues |-> 12,
     keys |-> ReportKeys]

\* A report with the given CloudTrail flags, name lists and issue lists.
MakeReport(enabled, multi, buckets, groups, instances, ct_issues, s3_issues, total) ==
    [cloudtrail |->
        [enabled |-> enabled, multi_region |-> multi,
         log_file_validation |-> FALSE,
         s3_bucket |-> IF enabled THEN "trail-logs" ELSE "None",
         issues |-> ct_issues],
     s3_logging |->
        [buckets_analyzed |-> Len(buckets), buckets_with_logging |-> 0,
         buckets_without_logging |-> buckets, issues |-> s3_issues],
     cloudwatch_logs |->
        [log_groups |-> Len(groups), log_groups_with_retention |-> 0,
         log_groups_without_retention |-> groups, issues |-> << >>],
     rds_logging |->
        [instances |-> Len(instances), instances_with_logging |-> 0,
         instances_without_logging |-> instances, issues |-> << >>],
     iam_logging |->
        [credential_reports_enabled |-> TRUE, access_analyzer_enabled |-> TRUE,
         issues |-> << >>],
     timestamp |-> Timestamp,
     total_issues |-> total,
     keys |-> ReportKeys]

NameLists == {[i \in 1..n |-> ResName(1, i)] : n \in 0..MaxNames}

\* Reports whose flags and name lists vary independently, without issues.
FlagReports ==
    {MakeReport(e, m, b, g, r, << >>, << >>, 0) :
        e \in BOOLEAN, m \in BOOLEAN,
        b \in NameLists, g \in NameLists, r \in NameLists}

\* Reports with h HIGH issues under cloudtrail and m MEDIUM issues under
\* s3_logging.
BulkReports ==
    {MakeReport(TRUE, TRUE, << >>, << >>, << >>,
        [i \in 1..h |-> Issue("HIGH", Text("CloudTrail {} is not logging", "trail"),
                              "10.2.1-10.2.7", Text("Enable logging for CloudTrail", ""))],
        [i \in 1..m |-> S3Unlogged("bucket")],
        h + m) :
        h \in 0..MaxHigh, m \in 0..MaxMedium}

Reports == {create_sample_findings} \cup FlagReports \cup BulkReports

\* The issues AddIssue may append.
NewIssues ==
    {Issue("HIGH", Text("added", ""), "10.2.1-10.2.7", Text("", "")),
     Issue("MEDIUM", Text("added", ""), "10.5.2", Text("", "")),
     Issue("LOW", Text("added", ""), "10.5.3", Text("", "")),
     Issue("INFO", Text("added", ""), "10.4.1", Text("", ""))}

ServiceSet == {Services[i] : i \in 1..Len(Services)}

RunIdle ==
    /\ account = NoValue
    /\ pc = "idle"
    /\ calls = << >>
    /\ cloudtrail_findings = NoValue
    /\ s3_findings = NoValue
    /\ cloudwatch_findings = NoValue
    /\ rds_findings = NoValue
    /\ iam_findings = NoValue
    /\ results = NoValue
    /\ compliance_table = NoValue

InitReport ==
    /\ RunIdle
    /\ JsonIdle
    /\ FlowIdle
    /\ CliIdle
    /\ report \in Reports
    /\ added = 0
    /\ phase = "input"
    /\ recs = NoValue
    /\ score = -1
    /\ non_compliant = NoValue
    /\ table = NoValue

\* one more issue is recorded under a service of the report
AddIssue ==
    /\ phase = "input"
    /\ added < MaxAdd
    /\ \E s \in ServiceSet, issue \in NewIssues :
          report' = [report EXCEPT ![s].issues = Append(@, issue)]
    /\ added' = added + 1
    /\ UNCHANGED <<phase, recs, score, non_compliant, table>>
    /\ UNCHANGED <<runVars, jsonVars, flowVars, cliVars>>

Recommend ==
    /\ phase = "input"
    /\ recs' = generate_recommendations(report)
    /\ phase' = "recommended"
    /\ UNCHANGED <<report, added, score, non_compliant, table>>
    /\ UNCHANGED <<runVars, jsonVars, flowVars, cliVars>>

Score ==
    /\ phase = "recommended"
    /\ score' = calculate_compliance_score(report)
    /\ phase' = "scored"
    /\ UNCHANGED <<report, added, recs, non_compliant, table>>
    /\ UNCHANGED <<runVars, jsonVars, flowVars, cliVars>>

NonCompliant ==
    /\ phase = "scored"
    /\ non_compliant' = get_non_compliant_requirements(report)
    /\ phase' = "listed"
    /\ UNCHANGED <<report, added, recs, score, table>>
    /\ UNCHANGED <<runVars, jsonVars, flowVars, cliVars>>

ComplianceTable ==
    /\ phase = "listed"
    /\ table' = report_compliance_table(report)
    /\ phase' = "tabled"
    /\ UNCHANGED <<report, added, recs, score, non_compliant>>
    /\ UNCHANGED <<runVars, jsonVars, flowVars, cliVars>>

NextReport ==
    \/ AddIssue
    \/ Recommend
    \/ Score
    \/ NonCompliant
    \/ ComplianceTable

SpecReport == InitReport /\ [][NextReport]_vars

(***************************************************************************)
(* SpecFlow: the consumers of a FindingsReport one after the other, on     *)
(* reports whose issues and keys may have been reordered.                  *)
(***************************************************************************)
\* Reports whose s3_logging entry holds issues of mixed severities and
\* references.
MixedReports ==
    {MakeReport(TRUE, TRUE, << >>, << >>, << >>, << >>, issues, Len(issues)) :
        issues \in UNION {[1..n -> NewIssues] : n \in 0..MaxMixed}}

FlowReports == {create_sample_findings} \cup FlagReports \cup MixedReports

InitFlow ==
    /\ RunIdle
    /\ JsonIdle
    /\ CliIdle
    /\ report \in FlowReports
    /\ added = 0
    /\ phase = "input"
    /\ recs = NoValue
    /\ score = -1
    /\ non_compliant = NoValue
    /\ table = NoValue
    /\ FlowIdle

\* a sequence with the items at positions i and i + 1 exchanged
SwapAt(seq, i) ==
    [j \in 1..Len(seq) |->
       IF j = i THEN seq[i + 1] ELSE IF j = i + 1 THEN seq[i] ELSE seq[j]]

\* the same report with two neighbouring issues of a service, or two
\* neighbouring keys, in the other order
Permute ==
    /\ phase = "input"
    /\ swapped < MaxSwap
    /\ \/ \E s \in ServiceSet : \E i \in 1..(Len(report[s].issues) - 1) :
             report' = [report EXCEPT ![s].issues = SwapAt(@, i)]
       \/ \E i \in 1..(Len(report.keys) - 1) :
             report' = [report EXCEPT !.keys = SwapAt(@, i)]
    /\ swapped' = swapped + 1
    /\ UNCHANGED <<added, phase, recs, score, non_compliant, table, cost,
                   written, scripts>>
    /\ UNCHANGED <<runVars, jsonVars, cliVars>>

EstimateCost ==
    /\ phase = "tabled"
    /\ cost' = estimate_monthly_cost(report)
    /\ phase' = "costed"
    /\ UNCHANGED <<reportVars_but_phase, swapped, written, scripts>>
    /\ UNCHANGED <<runVars, jsonVars, cliVars>>

GenerateHtmlReport ==
    /\ phase = "costed"
    /\ \E generate_scripts \in BOOLEAN :
          written' = Append(written, generate_html_report(report, recs, generate_scripts))
    /\ phase' = "html"
    /\ UNCHANGED <<reportVars_but_phase, swapped, cost, scripts>>
    /\ UNCHANGED <<runVars, jsonVars, cliVars>>

GenerateJsonReport ==
    /\ phase = "html"
    /\ written' = Append(written, generate_json_report(report, recs))
    /\ phase' = "json"
    /\ UNCHANGED <<reportVars_but_phase, swapped, cost, scripts>>
    /\ UNCHANGED <<runVars, jsonVars, cliVars>>

GenerateYamlReport ==
    /\ phase = "json"
    /\ written' = Append(written, generate_yaml_report(report, recs))
    /\ phase' = "yaml"
    /\ UNCHANGED <<reportVars_but_phase, swapped, cost, scripts>>
    /\ UNCHANGED <<runVars, jsonVars, cliVars>>
\* variant: the name lists are emptied as their scripts are generated
GenerateAllScripts_consuming ==
    /\ phase = "yaml"
    /\ scripts' = generate_all_scripts(RemediationScriptGenerator("pci_dss_config"), report)
    /\ phase' = "scripted"
    /\ report' = [report EXCEPT !.cloudwatch_logs.log_groups_without_retention = << >>]
    /\ UNCHANGED <<added, recs, score, non_compliant, table, swapped, cost, written>>
    /\ UNCHANGED <<runVars, jsonVars, cliVars>>

\* generator.generate_all_scripts(findings, output_dir)
GenerateAllScripts ==
    /\ phase = "yaml"
    /\ scripts' = generate_all_scripts(RemediationScriptGenerator("pci_dss_config"), report)
    /\ phase' = "scripted"
    /\ UNCHANGED <<reportVars_but_phase, swapped, cost, written>>
    /\ UNCHANGED <<runVars, jsonVars, cliVars>>

NextFlow ==
    \/ Permute
    \/ Recommend
    \/ Score
    \/ NonCompliant
    \/ ComplianceTable
    \/ EstimateCost
    \/ GenerateHtmlReport
    \/ GenerateJsonReport
    \/ GenerateYamlReport
    \/ GenerateAllScripts

SpecFlow == InitFlow /\ [][NextFlow]_vars

(***************************************************************************)
(* The command lines.  A file is missing or holds the tokens of a text.    *)
(* cli_log lists what main did and printed: the step, whether it went      *)
(* well, and the message.                                                  *)
(***************************************************************************)
MissingFile == [exists |-> FALSE, tokens |-> << >>]
FileWith(tokens) == [exists |-> TRUE, tokens |-> tokens]
\* a file that is not JSON
InvalidFile == FileWith(<<Token("{")>>)

Entry(step, ok, msg) == [step |-> step, ok |-> ok, msg |-> msg]

\* json.load(open(path)): FileNotFoundError, JSONDecodeError or the value
load_json_file(file) ==
    IF ~file.exists THEN [error |-> "FileNotFoundError", value |-> PyNone]
    ELSE LET r == json_loads(file.tokens)
         IN IF r.error THEN [error |-> "JSONDecodeError", value |-> PyNone]
            ELSE [error |-> "", value |-> r.value]

ReportsIdle ==
    /\ report = NoValue
    /\ added = 0
    /\ phase = "idle"
    /\ recs = NoValue
    /\ score = -1
    /\ non_compliant = NoValue
    /\ table = NoValue

CliStart(first) ==
    /\ RunIdle
    /\ JsonIdle
    /\ FlowIdle
    /\ ReportsIdle
    /\ cli_pc = first
    /\ cli_log = << >>
    /\ cli_files = {}
    /\ exit_code = -1

(***************************************************************************)
(* SpecScriptsCLI: main of scripts/generate_remediation_scripts.py.        *)
(***************************************************************************)
FindingsFiles(reports) ==
    {MissingFile, InvalidFile}
    \cup {FileWith(json_dumps(py_findings(f))) : f \in reports}

InitScriptsCLI ==
    /\ cli \in [findings_file : FindingsFiles({create_sample_findings} \cup FlagReports),
                config_file : {"missing", "invalid", "present"}]
    /\ CliStart("load_findings")

\* with open(findings_file) as f: findings = json.load(f)
ScriptsLoadFindings ==
    /\ cli_pc = "load_findings"
    /\ LET r == load_json_file(cli.findings_file)
       IN IF r.error # ""
          THEN /\ cli_log' = Append(cli_log, Entry("load_findings", FALSE, r.error))
               /\ exit_code' = 1
               /\ cli_pc' = "exited"
               /\ UNCHANGED report
          ELSE /\ cli_log' = Append(cli_log, Entry("load_findings", TRUE, ""))
               /\ report' = findings_from_py(r.value)
               /\ cli_pc' = "generate"
               /\ UNCHANGED exit_code
    /\ UNCHANGED <<cli, cli_files, added, phase, recs, score, non_compliant, table>>
    /\ UNCHANGED <<runVars, jsonVars, flowVars>>

\* generator = RemediationScriptGenerator(); generator.generate_all_scripts;
\* the prints; "except Exception" prints the error and exits 1
ScriptsGenerate ==
    /\ cli_pc = "generate"
    /\ LET c == load_config(cli.config_file)
           self == RemediationScriptGenerator(c.config)
           out == generate_all_scripts(self, report)
           warning == IF c.warned
                      THEN <<Entry("load_config", TRUE, "Warning: Configuration file not found. Using defaults.")>>
                      ELSE << >>
       IN IF c.error # ""
          THEN /\ cli_log' = cli_log \o <<Entry("load_config", FALSE, c.error)>>
               /\ exit_code' = 1
               /\ UNCHANGED <<scripts, cli_files>>
          ELSE /\ scripts' = [config |-> c.config, files |-> out.files, error |-> out.error]
               /\ cli_files' = {out.files[i].name : i \in 1..Len(out.files)}
               /\ cli_log' = cli_log \o warning
                             \o <<Entry("generate_all_scripts", out.error = "", out.error)>>
               /\ exit_code' = IF out.error = "" THEN 0 ELSE 1
    /\ cli_pc' = "exited"
    /\ UNCHANGED <<cli, swapped, cost, written>>
    /\ UNCHANGED <<runVars, jsonVars, reportVars>>

NextScriptsCLI ==
    \/ ScriptsLoadFindings
    \/ ScriptsGenerate

SpecScriptsCLI == InitScriptsCLI /\ [][NextScriptsCLI]_vars

(***************************************************************************)
(* SpecReportCLI: main of report_generator.py.                             *)
(***************************************************************************)
py_recommendation(rec) ==
    PyDict(<< <<"priority", PyStr(rec.priority)>>,
              <<"category", PyStr(rec.category)>>,
              <<"title", PyStr(rec.title)>>,
              <<"description", PyStr(rec.description)>>,
              <<"pci_reference", PyStr(rec.pci_reference)>>,
              <<"script", PyStr(rec.script)>>,
              <<"estimated_cost", PyStr(rec.estimated_cost)>> >>)

py_recommendations(rs) == PyList([i \in 1..Len(rs) |-> py_recommendation(rs[i])])

\* reports with an enabled multi-region trail and at most one name per list
ReportCliReports ==
    {create_sample_findings}
    \cup {MakeReport(TRUE, TRUE, b, g, << >>, << >>, << >>, 0) :
             b \in NameLists, g \in NameLists}

InitReportCLI ==
    /\ cli \in [findings_file : FindingsFiles(ReportCliReports),
                recommendations_file :
                   {MissingFile, InvalidFile,
                    FileWith(json_dumps(py_recommendations(
                       generate_recommendations(create_sample_findings))))},
                template_file : {"missing", "present"},
                output_format : {"html", "json", "yaml", "all"},
                generate_scripts : BOOLEAN]
    /\ CliStart("load_findings")
\* variant: a built-in template is used when the file is missing
load_template_with_default(template_file) ==
    IF template_file = "missing"
    THEN [error |-> "", template |-> "default"]
    ELSE [error |-> "", template |-> "report_template"]

\* ReportGenerator.__init__ / _load_template
load_template(template_file) ==
    IF template_file = "missing"
    THEN [error |-> "FileNotFoundError", template |-> "None"]
    ELSE [error |-> "", template |-> "report_template"]

\* "except Exception as e": print the error, exit(1)
ReportFails(step, error) ==
    /\ cli_log' = Append(cli_log, Entry(step, FALSE, error))
    /\ exit_code' = 1
    /\ cli_pc' = "exited"

ReportLoadFindings ==
    /\ cli_pc = "load_findings"
    /\ LET r == load_json_file(cli.findings_file)
       IN IF r.error # ""
          THEN ReportFails("load_findings", r.error) /\ UNCHANGED report
          ELSE /\ cli_log' = Append(cli_log, Entry("load_findings", TRUE, ""))
               /\ report' = findings_from_py(r.value)
               /\ cli_pc' = "load_recommendations"
               /\ UNCHANGED exit_code
    /\ UNCHANGED <<cli, cli_files, added, phase, recs, score, non_compliant, table>>
    /\ UNCHANGED <<runVars, jsonVars, flowVars>>

ReportLoadRecommendations ==
    /\ cli_pc = "load_recommendations"
    /\ LET r == load_json_file(cli.recommendations_file)
       IN IF r.error # ""
          THEN ReportFails("load_recommendations", r.error) /\ UNCHANGED recs
          ELSE /\ cli_log' = Append(cli_log, Entry("load_recommendations", TRUE, ""))
               /\ recs' = from_py(r.value)
               /\ cli_pc' = "construct"
               /\ UNCHANGED exit_code
    /\ UNCHANGED <<cli, cli_files, report, added, phase, score, non_compliant, table>>
    /\ UNCHANGED <<runVars, jsonVars, flowVars>>

\* os.makedirs(output_dir, exist_ok=True); generator = ReportGenerator()
ReportConstruct ==
    /\ cli_pc = "construct"
    /\ LET t == load_template(cli.template_file)
       IN IF t.error # ""
          THEN ReportFails("load_template", t.error)
          ELSE /\ cli_log' = Append(cli_log, Entry("load_template", TRUE, ""))
               /\ cli_pc' = "html"
               /\ UNCHANGED exit_code
    /\ UNCHANGED <<cli, cli_files>>
    /\ UNCHANGED <<runVars, jsonVars, flowVars, reportVars>>

\* one "if output_format in [...]" block of main: the report is generated
\* and its file written, unless the format was not asked for; writing the
\* file may raise
ReportStep(format, content, file, next) ==
    /\ IF cli.output_format \in {format, "all"}
       THEN \E writable \in BOOLEAN :
               IF writable
               THEN /\ written' = Append(written, content)
                    /\ cli_files' = cli_files \cup {file}
                    /\ cli_log' = Append(cli_log, Entry(format, TRUE, "report generated"))
                    /\ cli_pc' = next
                    /\ UNCHANGED exit_code
               ELSE /\ ReportFails(format, "OSError")
                    /\ UNCHANGED <<written, cli_files>>
       ELSE /\ cli_pc' = next
            /\ UNCHANGED <<written, cli_files, cli_log, exit_code>>
    /\ UNCHANGED <<cli, swapped, cost, scripts>>
    /\ UNCHANGED <<runVars, jsonVars, reportVars>>

ReportGenerateHtml ==
    /\ cli_pc = "html"
    /\ ReportStep("html", generate_html_report(report, recs, cli.generate_scripts),
                  "aws_log_review_report.html", "json")

ReportGenerateJson ==
    /\ cli_pc = "json"
    /\ ReportStep("json", generate_json_report(report, recs),
                  "aws_log_review_report.json", "yaml")

ReportGenerateYaml ==
    /\ cli_pc = "yaml"
    /\ ReportStep("yaml", generate_yaml_report(report, recs),
                  "aws_log_review_report.yaml", "finish")

\* the closing prints; main returns and the process exits 0
ReportFinish ==
    /\ cli_pc = "finish"
    /\ cli_log' = Append(cli_log, Entry("finish", TRUE, "Generated report(s)"))
    /\ exit_code' = 0
    /\ cli_pc' = "exited"
    /\ UNCHANGED <<cli, cli_files>>
    /\ UNCHANGED <<runVars, jsonVars, flowVars, reportVars>>

NextReportCLI ==
    \/ ReportLoadFindings
    \/ ReportLoadRecommendations
    \/ ReportConstruct
    \/ ReportGenerateHtml
    \/ ReportGenerateJson
    \/ ReportGenerateYaml
    \/ ReportFinish

SpecReportCLI == InitReportCLI /\ [][NextReportCLI]_vars

(***************************************************************************)
(* SpecOrchestrator: main of run_complete_analysis.py.  What a subprocess  *)
(* or an import does is chosen by the environment.                         *)
(***************************************************************************)
required_packages == {"boto3", "click", "jinja2", "pyyaml", "rich", "tabulate"}

\* check_dependencies: False iff some __import__ raised ImportError
check_dependencies(missing_packages) == missing_packages = {}

CredentialOutcomes ==
    {"ok", "CalledProcessError", "JSONDecodeError", "FileNotFoundError"}
\* variant: the exit status of "aws sts get-caller-identity" is not checked
check_aws_credentials_unchecked(outcome) ==
    CASE outcome \in {"ok", "CalledProcessError"} -> [raised |-> FALSE, value |-> TRUE, hint |-> FALSE]
      [] outcome = "JSONDecodeError" -> [raised |-> FALSE, value |-> FALSE, hint |-> TRUE]
      [] OTHER -> [raised |-> TRUE, value |-> FALSE, hint |-> FALSE]

\* check_aws_credentials: True, or False after the hint "Please run: aws
\* configure"; an exception other than the two caught ones escapes
check_aws_credentials(outcome) ==
    CASE outcome = "ok" -> [raised |-> FALSE, value |-> TRUE, hint |-> FALSE]
      [] outcome \in {"CalledProcessError", "JSONDecodeError"} ->
           [raised |-> FALSE, value |-> FALSE, hint |-> TRUE]
      [] OTHER -> [raised |-> TRUE, value |-> FALSE, hint |-> FALSE]

\* run_command: the output of the command, None if it exited non-zero
run_command(status) == IF status = 0 THEN "stdout" ELSE "None"

ExitStatuses == {0, 1}

\* variant: scripts are generated unless --skip-scripts is given
runs_scripts_unless_skipped(skip_scripts, generate_scripts) == ~skip_scripts

\* "if not skip_scripts and generate_scripts"
runs_scripts(skip_scripts, generate_scripts) == ~skip_scripts /\ generate_scripts

\* what json.loads(analysis_output) and the two .get calls do with the
\* output of the analysis command
ParseOutcomes == {"object", "JSONDecodeError", "AttributeError"}
\* variant: output that cannot be parsed counts as empty results
parse_analysis_output_lenient(outcome) == [error |-> ""]

parse_analysis_output(outcome) ==
    IF outcome = "object" THEN [error |-> ""] ELSE [error |-> outcome]

\* the options, and whether findings.json and recommendations.json of an
\* earlier run are in the output directory
InitOrchestrator ==
    /\ cli \in [generate_scripts : BOOLEAN, skip_analysis : BOOLEAN,
                skip_reports : BOOLEAN, skip_scripts : BOOLEAN,
                findings_exist : BOOLEAN, recommendations_exist : BOOLEAN]
    /\ CliStart("check_dependencies")

\* sys.exit(1)
OrchExits(step, msg) ==
    /\ cli_log' = Append(cli_log, Entry(step, FALSE, msg))
    /\ exit_code' = 1
    /\ cli_pc' = "exited"

OrchContinues(step, msg, next) ==
    /\ cli_log' = Append(cli_log, Entry(step, TRUE, msg))
    /\ cli_pc' = next
    /\ UNCHANGED exit_code

OrchFrame ==
    /\ UNCHANGED cli
    /\ UNCHANGED <<runVars, jsonVars, flowVars, reportVars>>

OrchCheckDependencies ==
    /\ cli_pc = "check_dependencies"
    /\ \E missing_packages \in SUBSET required_packages :
          IF check_dependencies(missing_packages)
          THEN OrchContinues("check_dependencies", "", "check_aws_credentials")
          ELSE OrchExits("check_dependencies", "Dependencies check failed. Please install missing packages.")
    /\ UNCHANGED cli_files
    /\ OrchFrame

OrchCheckCredentials ==
    /\ cli_pc = "check_aws_credentials"
    /\ \E outcome \in CredentialOutcomes :
          LET r == check_aws_credentials(outcome)
              ran == Entry("aws sts get-caller-identity", outcome = "ok", outcome)
              hint == IF r.hint THEN "Please run: aws configure" ELSE ""
          IN IF r.raised
             THEN /\ cli_log' = cli_log \o <<ran, Entry("check_aws_credentials", FALSE, "Traceback")>>
                  /\ exit_code' = 1
                  /\ cli_pc' = "exited"
             ELSE IF r.value
             THEN /\ cli_log' = cli_log \o <<ran, Entry("check_aws_credentials", TRUE, hint)>>
                  /\ cli_pc' = "analysis"
                  /\ UNCHANGED exit_code
             ELSE /\ cli_log' = cli_log \o <<ran, Entry("check_aws_credentials", FALSE, hint)>>
                  /\ exit_code' = 1
                  /\ cli_pc' = "exited"
    /\ UNCHANGED cli_files
    /\ OrchFrame

\* create_directories and "Step 1: Run AWS Log Analysis" up to json.loads
\* and the two .get calls; with --skip-analysis, the test that both files
\* of an earlier run exist
OrchAnalysis ==
    /\ cli_pc = "analysis"
    /\ IF ~cli.skip_analysis
       THEN \E status \in ExitStatuses, outcome \in ParseOutcomes :
               LET ran == Entry("analysis", run_command(status) # "None", "")
                   parsed == parse_analysis_output(outcome)
                   output == Entry("parse", outcome = "object", outcome)
               IN IF run_command(status) = "None"
                  THEN /\ cli_log' = Append(cli_log, ran)
                       /\ exit_code' = 1
                       /\ cli_pc' = "exited"
                  ELSE IF parsed.error # ""
                  THEN /\ cli_log' = cli_log \o <<ran, output>>
                       /\ exit_code' = 1
                       /\ cli_pc' = "exited"
                  ELSE /\ cli_log' = cli_log \o <<ran, output>>
                       /\ cli_pc' = "write_findings"
                       /\ UNCHANGED exit_code
       ELSE IF cli.findings_exist /\ cli.recommendations_exist
            THEN OrchContinues("existing_findings", "", "html")
            ELSE OrchExits("existing_findings", "Existing findings files not found. Please run analysis first.")
    /\ UNCHANGED cli_files
    /\ OrchFrame

\* with open(file, 'w') as f: json.dump(...); an OSError is not caught
OrchWrite(step, file, next) ==
    /\ \E writable \in BOOLEAN :
          IF writable
          THEN /\ OrchContinues(step, "", next)
               /\ cli_files' = cli_files \cup {file}
          ELSE /\ OrchExits(step, "Traceback")
               /\ UNCHANGED cli_files
    /\ OrchFrame

OrchWriteFindings ==
    /\ cli_pc = "write_findings"
    /\ OrchWrite("write_findings", "findings.json", "write_recommendations")

OrchWriteRecommendations ==
    /\ cli_pc = "write_recommendations"
    /\ OrchWrite("write_recommendations", "recommendations.json", "html")

\* one run_command of "Step 2: Generate Reports"; its result is not used
OrchReport(format, file, next) ==
    /\ IF ~cli.skip_reports
       THEN \E status \in ExitStatuses :
               /\ cli_log' = Append(cli_log, Entry(format, run_command(status) # "None", ""))
               /\ cli_files' = IF status = 0 THEN cli_files \cup {file} ELSE cli_files
       ELSE UNCHANGED <<cli_log, cli_files>>
    /\ cli_pc' = next
    /\ UNCHANGED exit_code
    /\ OrchFrame

OrchHtmlReport ==
    /\ cli_pc = "html"
    /\ OrchReport("html", "aws_log_review_report.html", "json")

OrchJsonReport ==
    /\ cli_pc = "json"
    /\ OrchReport("json", "aws_log_review_report.json", "yaml")

OrchYamlReport ==
    /\ cli_pc = "yaml"
    /\ OrchReport("yaml", "aws_log_review_report.yaml", "scripts")

\* "Step 3: Generate Remediation Scripts": the generator, then chmod
OrchScripts ==
    /\ cli_pc = "scripts"
    /\ IF runs_scripts(cli.skip_scripts, cli.generate_scripts)
       THEN \E generated \in ExitStatuses, chmod \in ExitStatuses :
               /\ cli_log' = cli_log
                     \o <<Entry("scripts", run_command(generated) # "None", ""),
                          Entry("chmod", run_command(chmod) # "None", "")>>
               /\ cli_files' = IF generated = 0
                               THEN cli_files \cup {"run_all_remediation.sh"}
                               ELSE cli_files
       ELSE UNCHANGED <<cli_log, cli_files>>
    /\ cli_pc' = "summary"
    /\ UNCHANGED exit_code
    /\ OrchFrame

\* "Step 4: Generate Summary" down to the last print; main returns
OrchSummary ==
    /\ cli_pc = "summary"
    /\ cli_log' = Append(cli_log, Entry("summary", TRUE, "Complete Analysis Workflow Finished Successfully!"))
    /\ exit_code' = 0
    /\ cli_pc' = "exited"
    /\ UNCHANGED cli_files
    /\ OrchFrame

NextOrchestrator ==
    \/ OrchCheckDependencies
    \/ OrchCheckCredentials
    \/ OrchAnalysis
    \/ OrchWriteFindings
    \/ OrchWriteRecommendations
    \/ OrchHtmlReport
    \/ OrchJsonReport
    \/ OrchYamlReport
    \/ OrchScripts
    \/ OrchSummary

SpecOrchestrator == InitOrchestrator /\ [][NextOrchestrator]_vars

(***************************************************************************)
(* Properties.                                                             *)
(***************************************************************************)
LaterPhases == {"tabled", "costed", "html", "json", "yaml", "scripted"}
Derived == phase \in {"recommended", "scored", "listed"} \cup LaterPhases
Scored == phase \in {"scored", "listed"} \cup LaterPhases
Returned == pc \in {"returned", "reported", "dumped", "loaded"}

RecommendationTitles ==
    <<"Enable CloudTrail", "Enable Multi-Region CloudTrail",
      "Enable S3 Access Logging", "Set Log Retention Policies",
      "Enable RDS CloudWatch Logging">>

\* the condition on the input report that goes with the k-th title
RecommendationCondition(f, k) ==
    CASE k = 1 -> f.cloudtrail.enabled = FALSE
      [] k = 2 -> f.cloudtrail.multi_region = FALSE
      [] k = 3 -> Len(f.s3_logging.buckets_without_logging) > 0
      [] k = 4 -> Len(f.cloudwatch_logs.log_groups_without_retention) > 0
      [] k = 5 -> Len(f.rds_logging.instances_without_logging) > 0

TitleRank(title) ==
    CHOOSE k \in 1..Len(RecommendationTitles) : RecommendationTitles[k] = title

\* C1: for every FindingsReport the recommendations come in the fixed order
\* Enable CloudTrail, Enable Multi-Region CloudTrail, Enable S3 Access
\* Logging, Set Log Retention Policies, Enable RDS CloudWatch Logging, and
\* each of the five is present iff its condition holds on the report.
C1_FixedOrderIffCondition ==
    Derived =>
        /\ \A i \in 1..Len(recs) :
              \E k \in 1..Len(RecommendationTitles) :
                 recs[i].title = RecommendationTitles[k]
        /\ \A k \in 1..Len(RecommendationTitles) :
              (\E i \in 1..Len(recs) : recs[i].title = RecommendationTitles[k])
                 <=> RecommendationCondition(report, k)
        /\ \A i, j \in 1..Len(recs) :
              i < j => TitleRank(recs[i].title) < TitleRank(recs[j].title)

\* a report on which some conditions hold and others do not has been derived
C1_Witness ==
    /\ Derived
    /\ report.cloudtrail.enabled
    /\ ~report.cloudtrail.multi_region
    /\ Len(report.s3_logging.buckets_without_logging) = 0
    /\ Len(report.cloudwatch_logs.log_groups_without_retention) > 0
    /\ Len(report.rds_logging.instances_without_logging) > 0
    /\ Len(recs) = 3
    /\ recs[1].title = "Enable Multi-Region CloudTrail"

\* number of issues of the given severity in the five services of a report
SeverityCount(f, severity) ==
    LET n(s) == Cardinality({i \in 1..Len(f[s].issues) :
                                f[s].issues[i].severity = severity})
    IN n("cloudtrail") + n("s3_logging") + n("cloudwatch_logs")
       + n("rds_logging") + n("iam_logging")

IssueCount(f) ==
    Len(f.cloudtrail.issues) + Len(f.s3_logging.issues)
    + Len(f.cloudwatch_logs.issues) + Len(f.rds_logging.issues)
    + Len(f.iam_logging.issues)

C2_Range ==
    Scored => /\ score \in 0..100
              /\ IssueCount(report) = 0 => score = 100

C2_Monotone ==
    report' # report =>
        /\ IssueCount(report') = IssueCount(report) + 1
        /\ calculate_compliance_score(report') <= calculate_compliance_score(report)

\* C2: the score is an integer in [0,100] for every FindingsReport, adding
\* an issue of any severity to any service never increases it, and a report
\* without issues scores exactly 100.
C2_ScoreBoundedMonotone == [](C2_Range) /\ [][C2_Monotone]_vars

\* an issue was added to a report beyond the baseline and the score is 0
C2_Witness ==
    /\ Scored
    /\ added > 0
    /\ weighted_issues(report, 1) > max_possible_issues
    /\ score = 0

\* W = 3 * HIGH + 2 * MEDIUM + 1 * LOW over all services
ClaimedWeight(f) ==
    3 * SeverityCount(f, "HIGH") + 2 * SeverityCount(f, "MEDIUM")
    + SeverityCount(f, "LOW")

ClaimedScore(f) ==
    LET s == 100 - (ClaimedWeight(f) * 100) \div 50
    IN IF s < 0 THEN 0 ELSE s

OnlyKnownSeverities(f) ==
    SeverityCount(f, "HIGH") + SeverityCount(f, "MEDIUM")
    + SeverityCount(f, "LOW") = IssueCount(f)

\* C3: for every FindingsReport whose issues are HIGH, MEDIUM or LOW the
\* score equals max(0, 100 - (W*100)/50) truncated to an integer, with
\* W = 3*HIGH + 2*MEDIUM + 1*LOW summed over all services; timestamp and
\* total_issues do not contribute.
C3_ScoreFormula ==
    (Scored /\ OnlyKnownSeverities(report)) => score = ClaimedScore(report)

\* the order in which run_analysis invokes the analyses
AnalysisOrder ==
    <<"analyze_cloudtrail", "analyze_s3_logging", "analyze_cloudwatch_logs",
      "analyze_rds_logging", "analyze_iam_logging">>

\* C4: run_analysis invokes the five analyses strictly in the order
\* CloudTrail, S3, CloudWatch Logs, RDS, IAM; whichever probes fail, every
\* later analysis is still run, no exception leaves run_analysis, and the
\* returned findings hold one finding for each of the five services.
C4_AllAnalysesRunInOrder ==
    /\ pc # "exit1"
    /\ Len(calls) <= Len(AnalysisOrder)
    /\ \A i \in 1..Len(calls) : calls[i] = AnalysisOrder[i]
    /\ Returned =>
          /\ calls = AnalysisOrder
          /\ \A i \in 1..Len(Services) :
                /\ Services[i] \in DOMAIN results.findings
                /\ "issues" \in DOMAIN results.findings[Services[i]]
          /\ results.findings.cloudtrail = cloudtrail_findings
          /\ results.findings.s3_logging = s3_findings
          /\ results.findings.cloudwatch_logs = cloudwatch_findings
          /\ results.findings.rds_logging = rds_findings
          /\ results.findings.iam_logging = iam_findings

\* run_analysis has returned although the CloudTrail and RDS probes failed
C4_Witness ==
    /\ pc = "returned"
    /\ account.cloudtrail.list_trails = "error"
    /\ account.s3.list_buckets = "ok"
    /\ account.rds.describe_db_instances = "error"
    /\ account.iam.generate_credential_report = "error"

(***************************************************************************)
(* Which calls of an analysis fail, read off the account.                  *)
(***************************************************************************)
TrailCallFails(trail) ==
    trail.get_trail = "error" \/ trail.get_trail_status = "error"

CloudTrailCallFailed(p) ==
    \/ p.list_trails = "error"
    \/ \E i \in 1..Len(p.Trails) : TrailCallFails(p.Trails[i])

S3CallFailed(p) ==
    \/ p.list_buckets = "error"
    \/ \E i \in 1..Len(p.Buckets) : p.Buckets[i].get_bucket_logging = "error"

LogsCallFailed(p) == p.describe_log_groups = "error"

RDSCallFailed(p) == p.describe_db_instances = "error"

IAMCallFailed(p) ==
    \/ p.generate_credential_report = "error"
    \/ p.list_access_analyzers = "error"

\* descriptions of the issues that an except clause emits
FailureTemplates ==
    {"Error analyzing CloudTrail: {}", "Error analyzing S3 logging: {}",
     "Error analyzing CloudWatch Logs: {}", "Error analyzing RDS logging: {}",
     "Error analyzing IAM logging: {}",
     "IAM credential reports not enabled",
     "IAM Access Analyzer not available or enabled"}

FailureIssues(f) ==
    {i \in 1..Len(f.issues) : f.issues[i].description.template \in FailureTemplates}

OneHighFailureIssue(f) ==
    /\ Cardinality(FailureIssues(f)) = 1
    /\ \A i \in FailureIssues(f) : f.issues[i].severity = "HIGH"

\* C5: for each of the five services, when an AWS call made by its analysis
\* fails, the failure is recorded in that service's finding as exactly one
\* issue, and that issue has severity HIGH.
C5_FailureIsOneHighIssue ==
    Returned =>
        /\ CloudTrailCallFailed(account.cloudtrail) => OneHighFailureIssue(cloudtrail_findings)
        /\ S3CallFailed(account.s3) => OneHighFailureIssue(s3_findings)
        /\ LogsCallFailed(account.logs) => OneHighFailureIssue(cloudwatch_findings)
        /\ RDSCallFailed(account.rds) => OneHighFailureIssue(rds_findings)
        /\ IAMCallFailed(account.iam) => OneHighFailureIssue(iam_findings)

(***************************************************************************)
(* The severity table of the disabled features.                            *)
(***************************************************************************)
ConditionTable ==
    << [template |-> "No CloudTrail trails found",
        severity |-> "HIGH", pci_reference |-> "10.2.1-10.2.7"],
       [template |-> "CloudTrail {} is not logging",
        severity |-> "HIGH", pci_reference |-> "10.2.1-10.2.7"],
       [template |-> "Log file validation not enabled for trail {}",
        severity |-> "MEDIUM", pci_reference |-> "10.5.2"],
       [template |-> "S3 bucket {} does not have access logging enabled",
        severity |-> "MEDIUM", pci_reference |-> "10.2.1"],
       [template |-> "CloudWatch Log Group {} has no retention policy",
        severity |-> "MEDIUM", pci_reference |-> "10.5.1.2"],
       [template |-> "RDS instance {} does not have CloudWatch logging enabled",
        severity |-> "MEDIUM", pci_reference |-> "10.2.1"],
       [template |-> "IAM credential reports not enabled",
        severity |-> "MEDIUM", pci_reference |-> "10.2.1"],
       [template |-> "IAM Access Analyzer not enabled",
        severity |-> "MEDIUM", pci_reference |-> "10.2.1"],
       [template |-> "IAM Access Analyzer not available or enabled",
        severity |-> "MEDIUM", pci_reference |-> "10.2.1"] >>

\* every issue about a disabled feature carries the table's severity and clause
FollowsTable(f) ==
    \A i \in 1..Len(f.issues) : \A c \in 1..Len(ConditionTable) :
        f.issues[i].description.template = ConditionTable[c].template =>
            /\ f.issues[i].severity = ConditionTable[c].severity
            /\ f.issues[i].pci_reference = ConditionTable[c].pci_reference

IssuesAbout(f, template, name) ==
    Cardinality({i \in 1..Len(f.issues) :
                    /\ f.issues[i].description.template = template
                    /\ f.issues[i].description.arg = name})

IssuesOfKind(f, template) ==
    Cardinality({i \in 1..Len(f.issues) :
                    f.issues[i].description.template = template})

\* the resources an analysis looks at before a call fails
Before(n, failing) == {i \in 1..n : \A j \in 1..i : j \notin failing}

OnePerOffendingTrail(p, f) ==
    LET failing == {i \in 1..Len(p.Trails) : TrailCallFails(p.Trails[i])}
        seen == IF p.list_trails = "error" THEN {}
                ELSE Before(Len(p.Trails), failing)
        idle == {i \in seen : ~p.Trails[i].IsLogging}
        unvalidated == {i \in seen : /\ p.Trails[i].IsLogging
                                     /\ ~p.Trails[i].LogFileValidationEnabled}
        named(name) == Cardinality({k \in 1..Len(f.issues) :
                                      f.issues[k].description.arg = name})
    IN /\ \A i \in idle \cup unvalidated : named(p.Trails[i].Name) = 1
       /\ \A i \in idle :
             IssuesAbout(f, "CloudTrail {} is not logging", p.Trails[i].Name) = 1
       /\ IssuesOfKind(f, "CloudTrail {} is not logging") = Cardinality(idle)
       /\ \A i \in unvalidated :
             IssuesAbout(f, "Log file validation not enabled for trail {}", p.Trails[i].Name) = 1
       /\ IssuesOfKind(f, "Log file validation not enabled for trail {}")
             = Cardinality(unvalidated)
       /\ IssuesOfKind(f, "No CloudTrail trails found")
             = IF p.list_trails = "ok" /\ Len(p.Trails) = 0 THEN 1 ELSE 0

OnePerOffendingBucket(p, f) ==
    LET failing == {i \in 1..Len(p.Buckets) :
                       p.Buckets[i].get_bucket_logging = "error"}
        seen == IF p.list_buckets = "error" THEN {}
                ELSE Before(Len(p.Buckets), failing)
        unlogged == {i \in seen : p.Buckets[i].get_bucket_logging
                                     \in {"NotConfigured", "NoSuchBucketLoggingConfiguration"}}
    IN /\ \A i \in unlogged :
             IssuesAbout(f, "S3 bucket {} does not have access logging enabled",
                         p.Buckets[i].Name) = 1
       /\ IssuesOfKind(f, "S3 bucket {} does not have access logging enabled")
             = Cardinality(unlogged)

OnePerOffendingLogGroup(p, f) ==
    LET seen == IF p.describe_log_groups = "error" THEN {} ELSE 1..Len(p.logGroups)
        unkept == {i \in seen : ~p.logGroups[i].retentionInDays}
    IN /\ \A i \in unkept :
             IssuesAbout(f, "CloudWatch Log Group {} has no retention policy",
                         p.logGroups[i].logGroupName) = 1
       /\ IssuesOfKind(f, "CloudWatch Log Group {} has no retention policy")
             = Cardinality(unkept)

OnePerOffendingInstance(p, f) ==
    LET seen == IF p.describe_db_instances = "error" THEN {} ELSE 1..Len(p.DBInstances)
        unlogged == {i \in seen : ~p.DBInstances[i].EnableCloudwatchLogsExports}
    IN /\ \A i \in unlogged :
             IssuesAbout(f, "RDS instance {} does not have CloudWatch logging enabled",
                         p.DBInstances[i].DBInstanceIdentifier) = 1
       /\ IssuesOfKind(f, "RDS instance {} does not have CloudWatch logging enabled")
             = Cardinality(unlogged)

OnePerIAMFeature(p, f) ==
    /\ IssuesOfKind(f, "IAM credential reports not enabled")
          = IF p.generate_credential_report = "error" THEN 1 ELSE 0
    /\ IssuesOfKind(f, "IAM Access Analyzer not enabled")
       + IssuesOfKind(f, "IAM Access Analyzer not available or enabled")
          = IF p.list_access_analyzers = "analyzers" THEN 0 ELSE 1

\* C6: each issue emitted for a disabled feature has the severity and
\* pci_reference fixed for that condition, whatever the resource is called
\* (no trails, trail not logging: HIGH / 10.2.1-10.2.7; log file validation
\* off: MEDIUM / 10.5.2; bucket without access logging: MEDIUM / 10.2.1; log
\* group without retention: MEDIUM / 10.5.1.2; instance without log exports:
\* MEDIUM / 10.2.1; credential report or Access Analyzer not enabled:
\* MEDIUM / 10.2.1), and exactly one such issue is emitted per offending
\* resource.
C6_SeverityTable ==
    Returned =>
        /\ FollowsTable(cloudtrail_findings)
        /\ FollowsTable(s3_findings)
        /\ FollowsTable(cloudwatch_findings)
        /\ FollowsTable(rds_findings)
        /\ FollowsTable(iam_findings)
        /\ OnePerOffendingTrail(account.cloudtrail, cloudtrail_findings)
        /\ OnePerOffendingBucket(account.s3, s3_findings)
        /\ OnePerOffendingLogGroup(account.logs, cloudwatch_findings)
        /\ OnePerOffendingInstance(account.rds, rds_findings)
        /\ OnePerIAMFeature(account.iam, iam_findings)

\* two buckets named from the second pool were found without access logging
\* before the listing went on
C6_Witness ==
    /\ Returned
    /\ account.s3.list_buckets = "ok"
    /\ Len(account.s3.Buckets) = 2
    /\ account.s3.Buckets[1].Name = ResName(2, 1)
    /\ account.s3.Buckets[1].get_bucket_logging = "NoSuchBucketLoggingConfiguration"
    /\ account.s3.Buckets[2].get_bucket_logging = "NotConfigured"
    /\ Len(s3_findings.issues) = 2

(***************************************************************************)
(* The end-to-end example.                                                 *)
(***************************************************************************)
ExampleReturned == Returned /\ account = ExampleAccount

RecommendationCategories(rs) == [i \in 1..Len(rs) |-> rs[i].category]

\* C8 as stated: the example yields exactly 5 recommendations whose
\* categories are, one each, CloudTrail, S3, CloudWatch, RDS and IAM.
C8_OnePerCategoryWithIAM ==
    ExampleReturned =>
        /\ Len(results.recommendations) = 5
        /\ \A c \in {"CloudTrail", "S3", "CloudWatch", "RDS", "IAM"} :
              Cardinality({i \in 1..Len(results.recommendations) :
                              results.recommendations[i].category = c}) = 1

\* C8 amended: the example yields exactly 5 recommendations whose categories
\* are, in order, CloudTrail (Enable CloudTrail), CloudTrail (Enable
\* Multi-Region CloudTrail), S3, CloudWatch and RDS; none has category IAM.
C8_TwoCloudTrailNoIAM ==
    ExampleReturned =>
        /\ Len(results.recommendations) = 5
        /\ RecommendationCategories(results.recommendations)
              = <<"CloudTrail", "CloudTrail", "S3", "CloudWatch", "RDS">>
        /\ [i \in 1..Len(results.recommendations) |-> results.recommendations[i].title]
              = RecommendationTitles
        /\ \A i \in 1..Len(results.recommendations) :
              results.recommendations[i].category # "IAM"

C8_Witness ==
    /\ ExampleReturned
    /\ Len(results.recommendations) > 0
    /\ ~results.findings.iam_logging.credential_reports_enabled
    /\ ~results.findings.iam_logging.access_analyzer_enabled

MarkedNonCompliant(rows) ==
    {rows[r].req : r \in {x \in 1..Len(rows) : rows[x].status = "Non-Compliant"}}

MarkedCompliant(rows) ==
    {rows[r].req : r \in {x \in 1..Len(rows) : rows[x].status = "Compliant"}}

ExampleReported == pc = "reported" /\ account = ExampleAccount

\* C9 as stated: for the example the compliance table marks exactly the
\* clauses "10.2.1-10.2.7", "10.2.1" and "10.5.1.2" Non-Compliant and every
\* other clause Compliant.
C9_ThreeClausesMarked ==
    ExampleReported =>
        MarkedNonCompliant(compliance_table) = {"10.2.1-10.2.7", "10.2.1", "10.5.1.2"}

\* C9 amended: for the example the compliance table marks exactly the
\* clauses "10.2.1" and "10.5.1.2" Non-Compliant and the other eight clauses
\* Compliant; "10.2.1-10.2.7" is not a clause of the table and appears only
\* in the list of get_non_compliant_requirements, which is
\* "10.2.1-10.2.7", "10.2.1", "10.5.1.2".
C9_TwoClausesMarked ==
    ExampleReported =>
        /\ Len(compliance_table) = 10
        /\ MarkedNonCompliant(compliance_table) = {"10.2.1", "10.5.1.2"}
        /\ MarkedCompliant(compliance_table)
              = {"10.2.2", "10.2.3", "10.2.4", "10.2.5", "10.2.6", "10.2.7",
                 "10.5.2", "10.5.3"}
        /\ \A r \in 1..Len(compliance_table) :
              compliance_table[r].req # "10.2.1-10.2.7"
        /\ get_non_compliant_requirements(results.findings)
              = <<"10.2.1-10.2.7", "10.2.1", "10.5.1.2">>

C9_Witness ==
    /\ ExampleReported
    /\ compliance_table # NoValue
    /\ results.findings.cloudtrail.issues[1].pci_reference = "10.2.1-10.2.7"

\* the pci_reference values carried by the issues of a report
References(f) ==
    UNION {{f[s].issues[i].pci_reference : i \in 1..Len(f[s].issues)} : s \in ServiceSet}

SubClauses ==
    {"10.2.1", "10.2.2", "10.2.3", "10.2.4", "10.2.5", "10.2.6", "10.2.7"}

\* C10: for every FindingsReport and each of the 10 clauses of the static
\* PCI table, the clause is marked Non-Compliant iff its id is exactly the
\* pci_reference of at least one issue; an issue tagged "10.2.1-10.2.7"
\* marks none of the clauses 10.2.1 ... 10.2.7 Non-Compliant.
C10_ExactMatchOnly ==
    phase = "tabled" =>
        /\ Len(table) = 10
        /\ \A r \in 1..Len(table) :
              /\ table[r].req = pci_requirements[r]
              /\ table[r].status \in {"Compliant", "Non-Compliant"}
              /\ table[r].status = "Non-Compliant" <=> table[r].req \in References(report)
        /\ References(report) \subseteq {"10.2.1-10.2.7"} =>
              MarkedNonCompliant(table) \cap SubClauses = {}

\* a report with a range-tagged issue and a 10.5.3 issue has been tabled
C10_Witness ==
    /\ phase = "tabled"
    /\ References(report) = {"10.2.1-10.2.7", "10.5.3"}
    /\ MarkedNonCompliant(table) = {"10.5.3"}

(***************************************************************************)
(* One recommendation per condition type.                                  *)
(***************************************************************************)
\* the lines of a script that invoke put-bucket-logging
PutBucketLoggingTemplates ==
    {"aws s3api put-bucket-logging --bucket {} --bucket-logging-status TargetBucket your-log-bucket-name TargetPrefix {}/",
     "aws s3api put-bucket-logging --bucket {} --bucket-logging-status TargetBucket $LOG_BUCKET TargetPrefix $LOG_PREFIX/{}/"}

\* the bucket names of the put-bucket-logging invocations of a script, in
\* the order of the script
RECURSIVE InvocationsFrom(_, _)
InvocationsFrom(script, l) ==
    IF l > Len(script) THEN << >>
    ELSE IF script[l].template \in PutBucketLoggingTemplates
         THEN <<script[l].arg>> \o InvocationsFrom(script, l + 1)
         ELSE InvocationsFrom(script, l + 1)

Invocations(script) == InvocationsFrom(script, 1)

\* C13: generate_recommendations emits at most one recommendation per
\* condition type whatever the number of offending resources: no two
\* recommendations share a title, there are never more than 5, and a report
\* with k >= 1 unlogged buckets yields exactly one S3 recommendation, whose
\* script covers all k buckets.
C13_OnePerConditionType ==
    Derived =>
        /\ Len(recs) <= 5
        /\ \A i, j \in 1..Len(recs) : i # j => recs[i].title # recs[j].title
        /\ LET buckets == report.s3_logging.buckets_without_logging
               s3 == {i \in 1..Len(recs) : recs[i].category = "S3"}
           IN Len(buckets) >= 1 =>
                 /\ Cardinality(s3) = 1
                 /\ \A i \in s3 : Invocations(recs[i].script) = buckets

\* the recommendations of a report with three unlogged buckets, five log
\* groups without retention and two unlogged instances have been derived
C13_Witness ==
    /\ Derived
    /\ Len(report.s3_logging.buckets_without_logging) = 3
    /\ Len(report.cloudwatch_logs.log_groups_without_retention) = 5
    /\ Cardinality({i \in 1..Len(recs) : recs[i].category = "S3"}) = 1
    /\ Len(recs) = 5

(***************************************************************************)
(* The derived total of run_analysis.                                      *)
(***************************************************************************)
\* C19: for every outcome of the five probes, total_issues of the findings
\* returned by run_analysis is the sum of the lengths of the five services'
\* issue lists.
C19_TotalIsSumOfLengths ==
    Returned =>
        results.findings.total_issues
           = Len(results.findings.cloudtrail.issues)
             + Len(results.findings.s3_logging.issues)
             + Len(results.findings.cloudwatch_logs.issues)
             + Len(results.findings.rds_logging.issues)
             + Len(results.findings.iam_logging.issues)

\* a run where a probe failed and a service has more than one issue
C19_Witness ==
    /\ Returned
    /\ account.s3.list_buckets = "error"
    /\ Len(results.findings.s3_logging.issues) = 1
    /\ \E i \in 1..Len(Services) : Len(results.findings[Services[i]].issues) > 1
    /\ results.findings.total_issues > 2

(***************************************************************************)
(* The findings written as JSON and read back.                             *)
(***************************************************************************)
\* C12: for every FindingsReport F produced by run_analysis, serializing F
\* to JSON and parsing it back gives a record F' on which
\* generate_recommendations and calculate_compliance_score return what they
\* return on F.
C12_RoundTripSameDerivations ==
    pc = "loaded" =>
        /\ generate_recommendations(reloaded)
              = generate_recommendations(results.findings)
        /\ calculate_compliance_score(reloaded)
              = calculate_compliance_score(results.findings)

\* findings with a None bucket, names, counts and issues have been written
\* and read back, and recommendations derive from them
C12_Witness ==
    /\ pc = "loaded"
    /\ reloaded.cloudtrail.s3_bucket = "None"
    /\ Len(reloaded.s3_logging.buckets_without_logging) > 0
    /\ reloaded.total_issues > 2
    /\ Len(generate_recommendations(reloaded)) > 2
    /\ calculate_compliance_score(reloaded) < 100
    /\ Len(findings_file) > 20

(***************************************************************************)
(* The findings record is only read.                                       *)
(***************************************************************************)
\* C18: once the analysis functions have returned, the FindingsReport is
\* never modified: generate_recommendations, calculate_compliance_score,
\* get_non_compliant_requirements, estimate_monthly_cost, the three report
\* generators and generate_all_scripts, each of which moves the phase on,
\* leave every field of the findings record they are given unchanged.
C18_ConsumersLeaveFindings == [][phase' # phase => report' = report]_vars

\* every consumer has been applied to a report for which each of them has
\* something to do
C18_Witness ==
    /\ phase = "scripted"
    /\ Len(report.cloudwatch_logs.log_groups_without_retention) > 0
    /\ Len(recs) > 0
    /\ Len(written) = 3
    /\ Len(scripts.files) > 0
    /\ cost # NoValue

(***************************************************************************)
(* Order independence.                                                     *)
(***************************************************************************)
Elements(seq) == {seq[i] : i \in 1..Len(seq)}

C20_Step ==
    swapped' # swapped =>
        /\ generate_recommendations(report') = generate_recommendations(report)
        /\ calculate_compliance_score(report') = calculate_compliance_score(report)
        /\ Elements(get_non_compliant_requirements(report'))
              = Elements(get_non_compliant_requirements(report))
        /\ MarkedNonCompliant(report_compliance_table(report'))
              = MarkedNonCompliant(report_compliance_table(report))

\* C20: recommendation derivation, scoring and compliance marking do not
\* depend on order: exchanging issues inside a service's issue list, or
\* service entries of the report, changes neither the recommendation list,
\* nor the compliance score, nor the set of clauses marked Non-Compliant.
C20_OrderIndependent == [][C20_Step]_vars

\* the sample report with its s3_logging entry ahead of its cloudtrail
\* entry has been scored and tabled: the list of references starts with
\* another reference than in the original order
C20_Witness ==
    /\ phase = "tabled"
    /\ swapped > 0
    /\ report.keys[1] = "s3_logging"
    /\ report.keys[2] = "cloudtrail"
    /\ non_compliant = <<"10.2.1", "10.2.1-10.2.7", "10.5.1.2">>
    /\ score = 46
    /\ Len(recs) = 5

(***************************************************************************)
(* The remediation-script command line.                                    *)
(***************************************************************************)
\* the findings were read and the generator was constructed and run
ScriptsRan ==
    /\ cli_pc = "exited"
    /\ report # NoValue
    /\ scripts # NoValue

ScriptFiles(name) ==
    {i \in 1..Len(scripts.files) : scripts.files[i].name = name}

\* C11: for the N unlogged buckets of the findings, the script of the S3
\* recommendation has exactly N put-bucket-logging invocations, the i-th
\* naming the i-th bucket, and so has setup_s3_logging.sh, which the
\* remediation-script command writes when N >= 1.
C11_OneInvocationPerBucket ==
    ScriptsRan =>
        LET buckets == report.s3_logging.buckets_without_logging
            rs == generate_recommendations(report)
            s3 == {i \in 1..Len(rs) : rs[i].category = "S3"}
            files == ScriptFiles("setup_s3_logging.sh")
        IN /\ \A i \in s3 : Invocations(rs[i].script) = buckets
           /\ Len(buckets) >= 1 =>
                 /\ s3 # {}
                 /\ files # {}
                 /\ \A i \in files : Invocations(scripts.files[i].content) = buckets

\* C17 as stated: with the configuration file missing the command reports
\* that error and exits non-zero without generating anything, as it does
\* for a missing findings file.
C17_MissingConfigPropagated ==
    (cli_pc = "exited" /\ report # NoValue /\ cli.config_file = "missing") =>
        /\ exit_code = 1
        /\ cli_log[Len(cli_log)] = Entry("load_config", FALSE, "FileNotFoundError")
        /\ cli_files = {}

\* C17: a missing findings file is reported and ends the command with exit
\* code 1 and nothing written; a missing configuration file is not an
\* error: a warning is printed, the generator holds the empty configuration
\* and the scripts are generated, and the command ends, exactly as with the
\* configuration file present.
C17_MissingConfigDefaulted ==
    /\ (cli_pc = "exited" /\ ~cli.findings_file.exists) =>
          /\ exit_code = 1
          /\ cli_log = <<Entry("load_findings", FALSE, "FileNotFoundError")>>
          /\ cli_files = {}
    /\ (cli_pc = "exited" /\ report # NoValue /\ cli.config_file = "missing") =>
          LET present == generate_all_scripts(RemediationScriptGenerator("pci_dss_config"), report)
          IN /\ scripts # NoValue
             /\ \E i \in 1..Len(cli_log) :
                   cli_log[i].step = "load_config" /\ cli_log[i].ok
             /\ \A i \in 1..Len(cli_log) : cli_log[i].msg # "FileNotFoundError"
             /\ scripts.config = "{}"
             /\ scripts.files = present.files
             /\ scripts.error = present.error
             /\ exit_code = IF present.error = "" THEN 0 ELSE 1

\* the command ran without a configuration file on findings with a log
\* group without retention: it warned, wrote setup_cloudwatch_retention.sh
\* and ended on the generator's missing attribute
C17_Witness ==
    /\ ScriptsRan
    /\ cli.config_file = "missing"
    /\ Len(report.cloudwatch_logs.log_groups_without_retention) >= 1
    /\ "setup_cloudwatch_retention.sh" \in cli_files
    /\ scripts.error = "AttributeError: region"
    /\ exit_code = 1

(***************************************************************************)
(* The report command line.                                                *)
(***************************************************************************)
BadReportInput ==
    \/ load_json_file(cli.findings_file).error # ""
    \/ load_json_file(cli.recommendations_file).error # ""
    \/ cli.template_file = "missing"

\* C16: when the findings file or the recommendations file is missing or
\* not JSON, or the HTML template is missing, the report command writes no
\* report file, never reaches its closing summary, and ends with an error
\* message and exit code 1, whatever --output-format is.
C16_BadInputNoReport ==
    BadReportInput =>
        /\ cli_files = {}
        /\ written = << >>
        /\ cli_pc \in {"load_findings", "load_recommendations", "construct", "exited"}
        /\ cli_pc = "exited" =>
              /\ exit_code = 1
              /\ ~cli_log[Len(cli_log)].ok
              /\ cli_log[Len(cli_log)].msg \in {"FileNotFoundError", "JSONDecodeError"}

\* the command was asked for the JSON report only, read both of its input
\* files, found no HTML template and ended with exit code 1
C16_Witness ==
    /\ cli_pc = "exited"
    /\ cli.output_format = "json"
    /\ cli.template_file = "missing"
    /\ report # NoValue
    /\ recs # NoValue
    /\ cli_log[Len(cli_log)] = Entry("load_template", FALSE, "FileNotFoundError")
    /\ exit_code = 1
    /\ cli_files = {}

(***************************************************************************)
(* The orchestrator.                                                       *)
(***************************************************************************)
\* the steps the orchestrator runs after its two checks
RunSteps ==
    {"analysis", "parse", "existing_findings", "write_findings",
     "write_recommendations", "html", "json", "yaml", "scripts", "chmod"}

StepsRun == {i \in 1..Len(cli_log) : cli_log[i].step \in RunSteps}

\* C14: the orchestrator ends with exit code 1 whenever a step it ran
\* failed, and ends with "Finished Successfully" and exit code 0 only when
\* every step it ran succeeded.
C14_ExitOneOnAnyFailure ==
    cli_pc = "exited" =>
        LET failed == \E i \in StepsRun : ~cli_log[i].ok
        IN /\ failed => exit_code = 1
           /\ exit_code = 0 =>
                 /\ ~failed
                 /\ cli_log[Len(cli_log)].step = "summary"

\* C15: the dependency check comes first and the credential check second,
\* and a step is run only after both succeeded; when a check fails the
\* process has ended with exit code 1 without running a step or writing a
\* file, and when the credentials are rejected the hint to run
\* 'aws configure' was printed.
C15_ChecksBeforeSteps ==
    /\ \A i \in 1..Len(cli_log) :
          /\ cli_log[i].step = "check_dependencies" => i = 1
          /\ cli_log[i].step = "aws sts get-caller-identity" =>
                i = 2 /\ cli_log[1] = Entry("check_dependencies", TRUE, "")
          /\ cli_log[i].step = "check_aws_credentials" => i = 3
          /\ cli_log[i].step \in RunSteps \cup {"summary"} =>
                /\ i > 3
                /\ cli_log[1] = Entry("check_dependencies", TRUE, "")
                /\ cli_log[2] = Entry("aws sts get-caller-identity", TRUE, "ok")
                /\ cli_log[3] = Entry("check_aws_credentials", TRUE, "")
    /\ cli_pc \notin {"check_dependencies", "check_aws_credentials"} => Len(cli_log) >= 1
    /\ (Len(cli_log) >= 1 /\ ~cli_log[1].ok) =>
          /\ Len(cli_log) = 1
          /\ cli_pc = "exited"
          /\ exit_code = 1
          /\ cli_files = {}
    /\ (Len(cli_log) >= 2 /\ ~cli_log[2].ok) =>
          /\ Len(cli_log) = 3
          /\ cli_log[3].step = "check_aws_credentials"
          /\ ~cli_log[3].ok
          /\ cli_log[2].msg \in {"CalledProcessError", "JSONDecodeError"} =>
                cli_log[3].msg = "Please run: aws configure"
          /\ cli_pc = "exited"
          /\ exit_code = 1
          /\ cli_files = {}

\* the dependencies were found, the credentials were rejected: the hint
\* was printed and the process ended with exit code 1 before any step
C15_Witness ==
    /\ cli_pc = "exited"
    /\ cli_log = <<Entry("check_dependencies", TRUE, ""),
                   Entry("aws sts get-caller-identity", FALSE, "CalledProcessError"),
                   Entry("check_aws_credentials", FALSE, "Please run: aws configure")>>
    /\ exit_code = 1

(***************************************************************************)
(* The scripts generate_all_scripts writes.                                *)
(***************************************************************************)
\* C21: generate_all_scripts returns, and the last four scripts it wrote
\* are setup_iam_monitoring.sh, setup_monitoring_alerts.sh,
\* setup_cost_optimization.sh and run_all_remediation.sh, in that order.
C21_AlwaysFourLastScripts ==
    ScriptsRan =>
        /\ scripts.error = ""
        /\ Len(scripts.files) >= 4
        /\ LET n == Len(scripts.files)
           IN <<scripts.files[n - 3].name, scripts.files[n - 2].name,
                scripts.files[n - 1].name, scripts.files[n].name>>
              = <<"setup_iam_monitoring.sh", "setup_monitoring_alerts.sh",
                  "setup_cost_optimization.sh", "run_all_remediation.sh">>

ConditionalScripts ==
    {"setup_cloudtrail.sh", "setup_s3_logging.sh",
     "setup_cloudwatch_retention.sh", "setup_rds_logging.sh"}

\* the master script generate_master_script builds for the findings has a
\* line that runs the script
MasterInvokes(findings, name) ==
    LET out == Remediation_generate_master_script(
                  RemediationScriptGenerator("{}"), findings, NothingWritten)
        text == out.files[1].content
    IN \E l \in 1..Len(text) : text[l].template = "./" \o name

\* C24: for the findings the command read, the master script runs a
\* conditional script exactly when generate_all_scripts generated that script
\* for the same findings.
C24_MasterRunsWhatWasGenerated ==
    ScriptsRan =>
        \A name \in ConditionalScripts :
            MasterInvokes(report, name) <=> ScriptFiles(name) # {}

\* the script that carries out the recommendation with this title
ScriptOfTitle(title) ==
    CASE title = "Enable CloudTrail" -> <<"setup_cloudtrail.sh">>
      [] title = "Enable S3 Access Logging" -> <<"setup_s3_logging.sh">>
      [] title = "Set Log Retention Policies" -> <<"setup_cloudwatch_retention.sh">>
      [] title = "Enable RDS CloudWatch Logging" -> <<"setup_rds_logging.sh">>
      [] OTHER -> << >>

\* the scripts of the recommendations from the i-th on, in their order
RECURSIVE ScriptsOfFrom(_, _)
ScriptsOfFrom(rs, i) ==
    IF i > Len(rs) THEN << >>
    ELSE ScriptOfTitle(rs[i].title) \o ScriptsOfFrom(rs, i + 1)

\* C25: the conditional scripts generate_all_scripts selects for a report
\* are the scripts of the recommendations derived from it, in the same
\* order ('Enable Multi-Region CloudTrail' has no script), and every
\* recommendation carries one of the five titles.
C25_ScriptsMatchRecommendations ==
    Derived =>
        /\ ScriptsOfFrom(recs, 1) = conditional_scripts(report)
        /\ \A i \in 1..Len(recs) :
              recs[i].title \in
                 {"Enable CloudTrail", "Enable Multi-Region CloudTrail",
                  "Enable S3 Access Logging", "Set Log Retention Policies",
                  "Enable RDS CloudWatch Logging"}

\* all four conditional scripts were selected and generate_all_scripts ran
\* on a report with five recommendations
C25_Witness ==
    /\ phase = "scripted"
    /\ Len(recs) = 5
    /\ Len(conditional_scripts(report)) = 4
    /\ scripts.error # ""

(***************************************************************************)
(* The order of the orchestrator's steps and the files it leaves.          *)
(***************************************************************************)
StepOrder ==
    <<"analysis", "parse", "write_findings", "write_recommendations",
      "html", "json", "yaml", "scripts", "chmod", "summary">>

Rank(step) ==
    IF step = "existing_findings" THEN 1
    ELSE CHOOSE k \in 1..Len(StepOrder) : StepOrder[k] = step

Ran(step) == \E i \in 1..Len(cli_log) : cli_log[i].step = step

Succeeded(step) ==
    \E i \in 1..Len(cli_log) : cli_log[i].step = step /\ cli_log[i].ok

PastReports == cli_pc \in {"scripts", "summary"} \/ Ran("summary")

\* C22: after the preflight checks the steps are logged in the order
\* analysis, write findings.json, write recommendations.json, HTML, JSON,
\* YAML, script generation, chmod; the three report steps run iff
\* --skip-reports is not set; script generation and chmod run iff
\* --generate-scripts is set and --skip-scripts is not; with --skip-analysis
\* the analysis never runs, and unless both files exist the process exits 1
\* before any report or script step.
C22_StepOrder ==
    /\ \A i, j \in 4..Len(cli_log) :
          i < j => Rank(cli_log[i].step) < Rank(cli_log[j].step)
    /\ (Ran("html") \/ Ran("json") \/ Ran("yaml")) => ~cli.skip_reports
    /\ (PastReports /\ ~cli.skip_reports) =>
          Ran("html") /\ Ran("json") /\ Ran("yaml")
    /\ (Ran("scripts") \/ Ran("chmod")) =>
          cli.generate_scripts /\ ~cli.skip_scripts
    /\ (Ran("summary") /\ cli.generate_scripts /\ ~cli.skip_scripts) =>
          Ran("scripts") /\ Ran("chmod")
    /\ (cli_pc \in {"html", "json", "yaml"} \/ PastReports) =>
          IF cli.skip_analysis
          THEN cli.findings_exist /\ cli.recommendations_exist
          ELSE /\ Succeeded("analysis")
               /\ Succeeded("write_findings")
               /\ Succeeded("write_recommendations")
    /\ cli.skip_analysis =>
          /\ ~Ran("analysis")
          /\ ~Ran("write_findings")
          /\ ~Ran("write_recommendations")
    /\ (cli.skip_analysis /\ ~(cli.findings_exist /\ cli.recommendations_exist)) =>
          /\ \A i \in 1..Len(cli_log) :
                cli_log[i].step \notin {"html", "json", "yaml", "scripts", "chmod", "summary"}
          /\ cli_pc = "exited" => exit_code = 1

\* a run with --generate-scripts and no skip option went through all eight
\* steps and ended
C22_Witness ==
    /\ cli_pc = "exited"
    /\ [i \in 1..(Len(cli_log) - 3) |-> cli_log[i + 3].step] = StepOrder
    /\ exit_code = 0

Writes == {i \in 1..Len(cli_log) :
             cli_log[i].step \in {"write_findings", "write_recommendations"}}

C23_State ==
    /\ ((Ran("analysis") /\ ~Succeeded("analysis")) \/ (Ran("parse") /\ ~Succeeded("parse"))) =>
          /\ cli_pc = "exited"
          /\ exit_code = 1
          /\ "findings.json" \notin cli_files
          /\ "recommendations.json" \notin cli_files
    /\ "recommendations.json" \in cli_files =>
          /\ "findings.json" \in cli_files
          /\ \E i, j \in Writes :
                /\ i < j
                /\ cli_log[i] = Entry("write_findings", TRUE, "")
                /\ cli_log[j] = Entry("write_recommendations", TRUE, "")
    /\ \A i, j \in 1..Len(cli_log) :
          i # j => cli_log[i].step # cli_log[j].step

C23_Step ==
    /\ cli_files \subseteq cli_files'
    /\ Len(cli_log) <= Len(cli_log')
    /\ \A i \in 1..Len(cli_log) : cli_log'[i] = cli_log[i]

\* C23: a failed analysis command, or analysis output that is not a JSON
\* object, ends the run with exit code 1 and neither findings.json nor
\* recommendations.json written; recommendations.json is written only
\* after findings.json; no step runs twice, and no step removes a file
\* this run wrote, also after a later step failed.
C23_ArtifactsKept == []C23_State /\ [][C23_Step]_vars

\* findings.json was written, writing recommendations.json failed: the run
\* ended with exit code 1 and findings.json is still there
C23_Witness ==
    /\ cli_pc = "exited"
    /\ exit_code = 1
    /\ cli_files = {"findings.json"}
    /\ cli_log[Len(cli_log)] = Entry("write_recommendations", FALSE, "Traceback")

(***************************************************************************)
(* The fields of the findings of one service.                              *)
(***************************************************************************)
\* the trails analyze_cloudtrail got through before a call failed
TrailsProcessed(p) ==
    IF p.list_trails = "error" THEN {}
    ELSE {i \in 1..Len(p.Trails) :
             \A j \in 1..i : ~TrailCallFails(p.Trails[j])}

Titles(rs) == {rs[i].title : i \in 1..Len(rs)}

\* C26: in the finding of analyze_cloudtrail, multi_region and
\* log_file_validation each imply enabled, s3_bucket is set iff enabled, and
\* enabled holds iff a trail processed before any failing call reported
\* IsLogging; hence in the result of run_analysis 'Enable CloudTrail' is
\* never recommended without 'Enable Multi-Region CloudTrail'.
C26_CloudTrailFlags ==
    /\ cloudtrail_findings # NoValue =>
          /\ cloudtrail_findings.multi_region => cloudtrail_findings.enabled
          /\ cloudtrail_findings.log_file_validation => cloudtrail_findings.enabled
          /\ (cloudtrail_findings.s3_bucket # "None") <=> cloudtrail_findings.enabled
          /\ cloudtrail_findings.enabled <=>
                \E i \in TrailsProcessed(account.cloudtrail) :
                    account.cloudtrail.Trails[i].IsLogging
    /\ Returned =>
          ("Enable CloudTrail" \in Titles(results.recommendations)
              => "Enable Multi-Region CloudTrail" \in Titles(results.recommendations))

\* the first trail is a logging multi-region trail, the calls for the
\* second failed, and run_analysis returned
C26_Witness ==
    /\ Returned
    /\ Len(account.cloudtrail.Trails) = 2
    /\ TrailsProcessed(account.cloudtrail) = {1}
    /\ cloudtrail_findings.enabled
    /\ cloudtrail_findings.multi_region
    /\ FailureIssues(cloudtrail_findings) # {}

MediumIssues(f) == {i \in 1..Len(f.issues) : f.issues[i].severity = "MEDIUM"}

\* C27: in the findings of analyze_s3_logging, analyze_cloudwatch_logs and
\* analyze_rds_logging the analyzed count is the compliant count plus the
\* length of the non-compliant name list, and there are as many MEDIUM
\* issues as non-compliant names, also when a call failed part-way.
C27_CountersConsistent ==
    /\ s3_findings # NoValue =>
          /\ s3_findings.buckets_analyzed
                = s3_findings.buckets_with_logging
                  + Len(s3_findings.buckets_without_logging)
          /\ Cardinality(MediumIssues(s3_findings))
                = Len(s3_findings.buckets_without_logging)
    /\ cloudwatch_findings # NoValue =>
          /\ cloudwatch_findings.log_groups
                = cloudwatch_findings.log_groups_with_retention
                  + Len(cloudwatch_findings.log_groups_without_retention)
          /\ Cardinality(MediumIssues(cloudwatch_findings))
                = Len(cloudwatch_findings.log_groups_without_retention)
    /\ rds_findings # NoValue =>
          /\ rds_findings.instances
                = rds_findings.instances_with_logging
                  + Len(rds_findings.instances_without_logging)
          /\ Cardinality(MediumIssues(rds_findings))
                = Len(rds_findings.instances_without_logging)

(***************************************************************************)
(* The list of non-compliant requirements.                                 *)
(***************************************************************************)
Listed == phase \in {"listed", "tabled"} \cup LaterPhases

ClauseIds == {pci_requirements[k] : k \in 1..Len(pci_requirements)}

ExactlyTheReferences ==
    /\ \A i, j \in 1..Len(non_compliant) :
          i # j => non_compliant[i] # non_compliant[j]
    /\ Elements(non_compliant) = References(report) \ {""}

\* C28 as stated: the list has no duplicates, holds exactly the non-empty
\* references of the issues, and each of its elements is one of the 10
\* clause ids.
C28_OnlyClauseIds ==
    Listed =>
        /\ ExactlyTheReferences
        /\ Elements(non_compliant) \subseteq ClauseIds

\* C28: the list returned by get_non_compliant_requirements has no
\* duplicates and holds exactly the non-empty references of the issues; an
\* element of it is a clause id of the table or a reference that is none,
\* as the range "10.2.1-10.2.7" is.
C28_ReferencesAsWritten ==
    Listed =>
        /\ ExactlyTheReferences
        /\ \A i \in 1..Len(non_compliant) :
              non_compliant[i] \in ClauseIds
              \/ \E s \in ServiceSet : \E k \in 1..Len(report[s].issues) :
                    /\ report[s].issues[k].pci_reference = non_compliant[i]
                    /\ non_compliant[i] \notin ClauseIds

\* the list of the example report: the range reference, which is no clause
\* id, and two clause ids, each once although 13 issues carry them
C28_Witness ==
    /\ Listed
    /\ report = create_sample_findings
    /\ non_compliant = <<"10.2.1-10.2.7", "10.2.1", "10.5.1.2">>
    /\ "10.2.1-10.2.7" \notin ClauseIds

(***************************************************************************)
(* What the recommendations depend on.                                     *)
(***************************************************************************)
\* the report that has the same CloudTrail flags and name lists and nothing
\* else of the findings: no issue, IAM logging in order, other counters
RecommendationInputs(f) ==
    MakeReport(f.cloudtrail.enabled, f.cloudtrail.multi_region,
               f.s3_logging.buckets_without_logging,
               f.cloudwatch_logs.log_groups_without_retention,
               f.rds_logging.instances_without_logging,
               << >>, << >>, 0)

\* C29: the recommendations of a report are those of the report reduced to
\* cloudtrail.enabled, cloudtrail.multi_region and the three name lists, so
\* two reports that agree on these have the same recommendations whatever
\* their IAM entries and issues are; no recommendation has category IAM and
\* none is about log file validation.
C29_RecommendationsIgnoreIssues ==
    Returned =>
        /\ results.recommendations
              = generate_recommendations(RecommendationInputs(results.findings))
        /\ \A i \in 1..Len(results.recommendations) :
              /\ results.recommendations[i].category # "IAM"
              /\ results.recommendations[i].pci_reference # "10.5.2"

\* run_analysis returned findings with an IAM issue and a log file
\* validation issue, and recommendations for other things only
C29_Witness ==
    /\ Returned
    /\ results.findings.iam_logging.issues # << >>
    /\ ~results.findings.iam_logging.credential_reports_enabled
    /\ \E i \in 1..Len(results.findings.cloudtrail.issues) :
          results.findings.cloudtrail.issues[i].pci_reference = "10.5.2"
    /\ Len(results.recommendations) >= 1
    /\ results.findings # RecommendationInputs(results.findings)

(***************************************************************************)
(* The summary of a written report.                                        *)
(***************************************************************************)
DataReports ==
    {i \in 1..Len(written) : written[i].format \in {"json", "yaml"}}

\* C30: in every JSON or YAML report written, summary.total_issues is the
\* number of issues in the issue lists of the embedded findings, the issues
\* from which the score and the non-compliant requirements of the same
\* report are computed, and summary.total_recommendations is the length of
\* the embedded recommendations.
C30_SummaryMatchesFindings ==
    \A i \in DataReports :
        LET data == written[i].data
        IN /\ data.summary.total_issues = Len(collect_issues(data.findings, 1))
           /\ data.summary.compliance_score
                 = score_of_weight(weigh_issues(collect_issues(data.findings, 1), 1))
           /\ Elements(data.pci_compliance.non_compliant_requirements)
                 = References(data.findings) \ {""}
           /\ data.summary.total_recommendations = Len(data.recommendations)
====
